---- MODULE Spec2Model ----
(***************************************************************************)
(* The trace-driven DDDG builder of ALADDIN (src/common/DDDG.cpp) as a     *)
(* state machine.  One step of the machine is one line of the dynamic      *)
(* trace read by DDDG::build_initial_dddg: the line's tag selects          *)
(* parse_instruction_line, parse_parameter, parse_result or parse_forward, *)
(* and the end of the read loop flushes the buffered edge tables into the  *)
(* program store (output_dddg).                                            *)
(*                                                                         *)
(* The fields of a line are the inputs of the actions.  Names (functions,  *)
(* registers, basic blocks) are strings, node ids and byte addresses are   *)
(* small naturals.  Address operands of the model lie far below ADDR_MASK, *)
(* so "value & ADDR_MASK" keeps them as they are.                          *)
(***************************************************************************)
EXTENDS Integers, Sequences, FiniteSets, Bags, TLC

VARIABLES
  \* ---- driver (build_initial_dddg) ----
  pc,                       \* "reading" | "done" | "aborted"
  seen_first_line, first_function, first_function_returned,
  returned,                 \* return value once done: "offset" | "END_OF_TRACE"
  \* ---- trace producer (format of the lines still to come) ----
  tag0_lines,               \* tag-0 lines read so far
  last_tag,                 \* slot of the instruction's last Parameter, 0: none
  operand_lines,            \* Parameter lines read for the instruction
  forwarded,                \* a Forward line followed the last Parameter
  result_seen,              \* the current instruction's Result record was read
  \* ---- traced program (what the lines read so far say it did) ----
  frames,                   \* its call stack: <<[function, alias, entry]>>,
                            \* alias maps a formal to the outermost
                            \* caller-side register, entry is the node of
                            \* the invocation's first instruction
  call_target,              \* callee operand of the current Call
  pending_actual,           \* origin of the Call argument not yet forwarded
  pending_alias,            \* formal -> origin, for the frame the Call enters
  register_reads,           \* {<<writer, reader, slot>>}: the resolved reads
  executing,                \* per node: [entry: the invocation it executes in,
                            \* dyn_func: curr_dynamic_function at its line]
  \* ---- collaborators ----
  nodes,                    \* program->nodes, index = node id + 1
  edges,                    \* program store edges: bag of <<source, sink, label>>
  call_arg_map,             \* program->call_arg_map
  array_base,               \* datapath->addArrayBaseAddress calls: {<<name, addr>>}
  ready_mode,               \* datapath->isReadyMode()
  invocations,              \* Function::invocations of the interned functions
  variables,                \* interned Variable names (srcManager)
  \* ---- DDDG members ----
  num_of_reg_dep, num_of_mem_dep, num_of_ctrl_dep, num_of_instructions,
  current_node_id, last_parameter, last_dma_fence, prev_bblock, curr_bblock,
  callee_function, last_ret, curr_microop, prev_microop,
  callee_dynamic_function, curr_dynamic_function, active_method,
  nodes_since_last_ret, last_dma_nodes, last_call_source,
  unique_reg_in_caller_func,
  parameter_value_per_inst, parameter_size_per_inst, parameter_label_per_inst,
  register_last_written, address_last_written,
  register_edge_table, memory_edge_table, control_edge_table,
  \* ---- hex codec (free functions of lines 16-72) ----
  str_buf,                  \* the string held: a sequence of characters
  byte_buf,                 \* the byte buffer held: a sequence of 0..255
  codec_input,              \* [kind, value]: what the codec was first given
  codec_calls               \* the codec calls made: <<[fn, separate32]>>

driver_vars == <<pc, seen_first_line, first_function, first_function_returned,
                 returned>>
producer_vars == <<tag0_lines, last_tag, operand_lines, forwarded, result_seen>>
program_vars == <<frames, call_target, pending_actual, pending_alias,
                  register_reads, executing>>
store_vars == <<nodes, edges, call_arg_map, array_base, ready_mode,
                invocations, variables>>
count_vars == <<num_of_reg_dep, num_of_mem_dep, num_of_ctrl_dep,
                num_of_instructions>>
inst_vars == <<current_node_id, last_parameter, prev_bblock, curr_bblock,
               curr_microop, prev_microop>>
call_vars == <<callee_function, callee_dynamic_function, curr_dynamic_function,
               active_method, last_call_source, unique_reg_in_caller_func>>
fence_vars == <<last_ret, nodes_since_last_ret, last_dma_fence, last_dma_nodes>>
scratch_vars == <<parameter_value_per_inst, parameter_size_per_inst,
                  parameter_label_per_inst>>
rename_vars == <<register_last_written, address_last_written>>
table_vars == <<register_edge_table, memory_edge_table, control_edge_table>>

builder_vars == <<store_vars, count_vars, inst_vars, call_vars, fence_vars,
                  scratch_vars, rename_vars, table_vars>>
codec_vars == <<str_buf, byte_buf, codec_input, codec_calls>>
vars == <<driver_vars, producer_vars, program_vars, store_vars, count_vars, inst_vars,
          call_vars, fence_vars, scratch_vars, rename_vars, table_vars, codec_vars>>

----------------------------------------------------------------------------
(* Microops and their predicates.                                          *)

LLVM_IR_Call == "Call"
LLVM_IR_Ret == "Ret"
LLVM_IR_PHI == "PHI"
LLVM_IR_Load == "Load"
LLVM_IR_Store == "Store"
LLVM_IR_GetElementPtr == "GetElementPtr"
LLVM_IR_Alloca == "Alloca"
LLVM_IR_DMALoad == "DMALoad"
LLVM_IR_DMAStore == "DMAStore"
LLVM_IR_DMAFence == "DMAFence"
LLVM_IR_Add == "Add"
LLVM_IR_Sine == "Sine"

is_call_op(m) == m = LLVM_IR_Call
is_ret_op(m) == m = LLVM_IR_Ret
is_dma_load(m) == m = LLVM_IR_DMALoad
is_dma_op(m) == m \in {LLVM_IR_DMALoad, LLVM_IR_DMAStore, LLVM_IR_DMAFence}
is_trig_op(m) == m = LLVM_IR_Sine

BYTE == 8
\* Edge labels: MEMORY_EDGE, CONTROL_EDGE, or the parameter slot of a register
\* edge.
MEMORY_EDGE == <<"memory", 0>>
CONTROL_EDGE == <<"control", 0>>
RegisterEdge(par_id) == <<"register", par_id>>

\* A null pointer (Function*, Variable*, ExecNode*).
nullptr == "nullptr"
\* "No node": last_dma_fence, last_call_source, last_ret.
NoNode == -1
\* The initial prev_bblock / curr_bblock, the string "-1".
NoBlock == <<"-1">>

\* DynamicFunction(f, it) and the default-constructed one.
DynamicFunction(f, it) == [function |-> f, iteration |-> it]
NullDynamicFunction == DynamicFunction(nullptr, 0)
\* DynamicVariable(df, v), the default-constructed one, and operator bool.
DynamicVariable(df, v) == [dyn_func |-> df, variable |-> v]
NullDynamicVariable == DynamicVariable(NullDynamicFunction, nullptr)
IsSet(dv) == dv.variable # nullptr

\* m[k] = v on a std::map / std::unordered_map.
Put(m, k, v) == [x \in DOMAIN m \cup {k} |-> IF x = k THEN v ELSE m[x]]
EmptyMap == [x \in {} |-> 0]

----------------------------------------------------------------------------
(* Collaborators: the source-symbol table and the program store.           *)

\* srcManager.insert<Function>(name): a new Function starts at 0 invocations.
InsertFunction(inv, f) == IF f \in DOMAIN inv THEN inv ELSE Put(inv, f, 0)
\* Function::increment_invocations.
IncrementInvocations(inv, f) == Put(inv, f, inv[f] + 1)
\* srcManager.get<Variable>(name): the handle, or nullptr when not interned.
GetVariable(vs, name) == IF name \in vs THEN name ELSE nullptr

\* An addEdge that stores every triple it is given.
AddEdgeAgain(E, e) == E (+) SetToBag({e})

\* Program::addEdge: inserts once, a duplicate triple is dropped.
AddEdge(E, e) == IF BagIn(e, E) THEN E ELSE E (+) SetToBag({e})

\* call_arg_map.lookup: follow the chain until a key has no entry.
RECURSIVE Lookup(_, _)
Lookup(cam, dv) == IF dv \in DOMAIN cam THEN Lookup(cam, cam[dv]) ELSE dv

\* ExecNode as created by Program::insertNode and filled by the setters.
NoMemAccess == [valid |-> FALSE, vaddr |-> 0, size |-> 0]
NoDmaMemAccess ==
  [valid |-> FALSE, base_addr |-> 0, src_off |-> 0, dst_off |-> 0, size |-> 0]
NewNode(node_id, microop, f, bbname, ld) ==
  [node_id |-> node_id, microop |-> microop, static_function |-> f, basic_block |-> bbname,
   loop_depth |-> ld, dynamic_invocation |-> 0, variable |-> nullptr,
   array_label |-> "", mem_access |-> NoMemAccess,
   dma_mem_access |-> NoDmaMemAccess]

----------------------------------------------------------------------------
(* Edge tables.  A table is a map source -> set of sinks with the counter  *)
(* of the insertions that added a sink.                                    *)

SinksOf(table, source) ==
  IF source \in DOMAIN table THEN table[source] ELSE {}

\* DDDG::insert_control_dependence on <<control_edge_table, num_of_ctrl_dep>>.
insert_control_dependence(tc, source_node, dest_node) ==
  <<Put(tc[1], source_node, SinksOf(tc[1], source_node) \cup {dest_node}),
    IF dest_node \in SinksOf(tc[1], source_node) THEN tc[2] ELSE tc[2] + 1>>

\* for (node_id : list) insert_control_dependence(node_id, dest)
RECURSIVE InsertControlFrom(_, _, _)
InsertControlFrom(tc, list, dest_node) ==
  IF list = <<>> THEN tc
  ELSE InsertControlFrom(insert_control_dependence(tc, Head(list), dest_node),
                         Tail(list), dest_node)

\* DDDG::handle_post_write_dependency on <<memory_edge_table, num_of_mem_dep>>:
\* one byte of the range.
PostWriteByte(tm, alw, addr, sink_node) ==
  IF addr \in DOMAIN alw
  THEN <<Put(tm[1], alw[addr], SinksOf(tm[1], alw[addr]) \cup {sink_node}),
         IF sink_node \in SinksOf(tm[1], alw[addr]) THEN tm[2] ELSE tm[2] + 1>>
  ELSE tm

\* The loop over [addr, start_addr + size).
RECURSIVE PostWriteLoop(_, _, _, _, _)
PostWriteLoop(tm, alw, addr, end_addr, sink_node) ==
  IF addr < end_addr
  THEN PostWriteLoop(PostWriteByte(tm, alw, addr, sink_node), alw, addr + 1,
                     end_addr, sink_node)
  ELSE tm

\* handle_post_write_dependency that looks at the first byte alone.
handle_post_write_dependency_first(tm, alw, start_addr, size, sink_node) ==
  PostWriteLoop(tm, alw, start_addr, IF size > 0 THEN start_addr + 1 ELSE start_addr, sink_node)

handle_post_write_dependency(tm, alw, start_addr, size, sink_node) ==
  PostWriteLoop(tm, alw, start_addr, start_addr + size, sink_node)

\* get_array_real_var that looks one call up only.
get_array_real_var_caller(vs, cam, cdf, array_name) ==
  LET dyn_var == DynamicVariable(cdf, GetVariable(vs, array_name))
  IN  IF dyn_var \in DOMAIN cam THEN cam[dyn_var].variable
      ELSE dyn_var.variable

\* DDDG::get_array_real_var under the current dynamic function.
get_array_real_var(vs, cam, cdf, array_name) ==
  Lookup(cam, DynamicVariable(cdf, GetVariable(vs, array_name))).variable

\* DDDG::num_nodes.
num_nodes_off(n) == n
num_nodes(n) == n + 1

----------------------------------------------------------------------------
(* DDDG::parse_instruction_line.                                           *)

\* The loop-depth assertion of parse_instruction_line.
LoopDepthLimit == 1000

\* The assertion with the limit itself let through.
LoopDepthAcceptedInclusive(loop_depth) == loop_depth <= LoopDepthLimit

\* Lines 253-254: assert(current_loop_depth < 1000).
LoopDepthAccepted(loop_depth) == loop_depth < LoopDepthLimit

\* CallRetFence with the fence left to Call nodes alone.
CallRetFenceCallOnly(tc, microop, node_id) ==
  IF is_call_op(microop)
  THEN LET tc1 == InsertControlFrom(tc, nodes_since_last_ret, node_id)
           tc2 == IF last_ret # NoNode /\ last_ret # node_id
                  THEN insert_control_dependence(tc1, last_ret, node_id)
                  ELSE tc1
       IN  <<tc2, <<>>, node_id>>
  ELSE IF ~is_dma_op(microop)
       THEN <<tc, Append(nodes_since_last_ret, node_id), last_ret>>
       ELSE <<tc, nodes_since_last_ret, last_ret>>

\* Call/return fence (lines 276-285): <<control table and count, the new
\* nodes_since_last_ret, the new last_ret>>.
CallRetFence(tc, microop, node_id) ==
  IF is_ret_op(microop) \/ is_call_op(microop)
  THEN LET tc1 == InsertControlFrom(tc, nodes_since_last_ret, node_id)
           tc2 == IF last_ret # NoNode /\ last_ret # node_id
                  THEN insert_control_dependence(tc1, last_ret, node_id)
                  ELSE tc1
       IN  <<tc2, <<>>, node_id>>
  ELSE IF ~is_dma_op(microop)
       THEN <<tc, Append(nodes_since_last_ret, node_id), last_ret>>
       ELSE <<tc, nodes_since_last_ret, last_ret>>

\* Dynamic call stack (lines 287-312): <<invocations, active_method,
\* curr_dynamic_function, func_invocation_count>>.  prev is the microop of the
\* previous instruction.
CallStack(inv0, microop, curr_function, prev) ==
  LET nonempty == active_method # <<>>
      prev_function == active_method[Len(active_method)].function
      found == nonempty /\ curr_function = prev_function
      itself == found /\ prev = LLVM_IR_Call /\ callee_function = curr_function
      inv1 == IF itself THEN IncrementInvocations(inv0, curr_function) ELSE inv0
      stack1 == IF itself
                THEN Append(active_method,
                            DynamicFunction(curr_function, inv1[curr_function]))
                ELSE active_method
      cdf1 == IF found THEN stack1[Len(stack1)] ELSE curr_dynamic_function
      count1 == IF itself THEN inv1[curr_function]
                ELSE IF found THEN inv0[prev_function] ELSE 0
      stack2 == IF nonempty /\ microop = LLVM_IR_Ret
                THEN SubSeq(stack1, 1, Len(stack1) - 1) ELSE stack1
      inv2 == IF found THEN inv1 ELSE IncrementInvocations(inv1, curr_function)
      stack3 == IF found THEN stack2
                ELSE Append(stack2,
                            DynamicFunction(curr_function, inv2[curr_function]))
  IN  <<inv2, stack3,
        IF found THEN cdf1 ELSE stack3[Len(stack3)],
        IF found THEN count1 ELSE inv2[curr_function]>>

\* DmaOrdering with the pending DMA nodes tied to the fence before this one.
DmaOrderingStaleFence(tc, microop, node_id) ==
  IF microop = LLVM_IR_DMAFence
  THEN <<IF last_dma_fence # NoNode
         THEN InsertControlFrom(tc, last_dma_nodes, last_dma_fence) ELSE tc,
         node_id, <<>>>>
  ELSE IF microop \in {LLVM_IR_DMALoad, LLVM_IR_DMAStore}
       THEN <<IF last_dma_fence # NoNode
              THEN insert_control_dependence(tc, last_dma_fence, node_id)
              ELSE tc,
              last_dma_fence, Append(last_dma_nodes, node_id)>>
       ELSE <<tc, last_dma_fence, last_dma_nodes>>

\* DmaOrdering with the fence edge given to DMA loads alone.
DmaOrderingLoadOnly(tc, microop, node_id) ==
  IF microop = LLVM_IR_DMAFence
  THEN <<InsertControlFrom(tc, last_dma_nodes, node_id), node_id, <<>>>>
  ELSE IF microop \in {LLVM_IR_DMALoad, LLVM_IR_DMAStore}
       THEN <<IF last_dma_fence # NoNode /\ microop = LLVM_IR_DMALoad
              THEN insert_control_dependence(tc, last_dma_fence, node_id)
              ELSE tc,
              last_dma_fence, Append(last_dma_nodes, node_id)>>
       ELSE <<tc, last_dma_fence, last_dma_nodes>>

\* PhiLatch that takes the snapshot at every PHI.
PhiLatchEveryPhi(microop) ==
  IF microop = LLVM_IR_PHI THEN curr_bblock ELSE prev_bblock

\* Lines 313-314: prev_bblock once the instruction line of microop is read;
\* curr_microop still is the previous instruction's.
PhiLatch(microop) ==
  IF microop = LLVM_IR_PHI /\ curr_microop # LLVM_IR_PHI
  THEN curr_bblock ELSE prev_bblock

\* DMA ordering (lines 315-325): <<control table and count, last_dma_fence,
\* last_dma_nodes>>.
DmaOrdering(tc, microop, node_id) ==
  IF microop = LLVM_IR_DMAFence
  THEN <<InsertControlFrom(tc, last_dma_nodes, node_id), node_id, <<>>>>
  ELSE IF microop \in {LLVM_IR_DMALoad, LLVM_IR_DMAStore}
       THEN <<IF last_dma_fence # NoNode
              THEN insert_control_dependence(tc, last_dma_fence, node_id)
              ELSE tc,
              last_dma_fence, Append(last_dma_nodes, node_id)>>
       ELSE <<tc, last_dma_fence, last_dma_nodes>>

parse_instruction_line(curr_static_function, bblockname, loop_depth, microop, node_id) ==
  IF ~LoopDepthAccepted(loop_depth) \/ node_id # Len(nodes)
  THEN \* the assertion on the loop depth, or insertNode's on the node id
       /\ pc' = "aborted"
       /\ UNCHANGED <<store_vars, count_vars, inst_vars, call_vars, fence_vars,
                      scratch_vars, rename_vars, table_vars>>
  ELSE LET fence == CallRetFence(<<control_edge_table, num_of_ctrl_dep>>,
                                 microop, node_id)
           stack == CallStack(InsertFunction(invocations, curr_static_function),
                              microop, curr_static_function, curr_microop)
           dma == DmaOrdering(fence[1], microop, node_id)
       IN  /\ pc' = pc
           /\ num_of_instructions' = num_of_instructions + 1
           /\ prev_microop' = curr_microop
           /\ curr_microop' = microop
           /\ current_node_id' = node_id
           /\ nodes' = Append(nodes,
                  [NewNode(node_id, microop, curr_static_function, bblockname,
                           loop_depth)
                     EXCEPT !.dynamic_invocation = stack[4]])
           /\ nodes_since_last_ret' = fence[2]
           /\ last_ret' = fence[3]
           /\ invocations' = stack[1]
           /\ active_method' = stack[2]
           /\ curr_dynamic_function' = stack[3]
           /\ prev_bblock' = PhiLatch(microop)
           /\ control_edge_table' = dma[1][1]
           /\ num_of_ctrl_dep' = dma[1][2]
           /\ last_dma_fence' = dma[2]
           /\ last_dma_nodes' = dma[3]
           /\ curr_bblock' = <<bblockname, loop_depth>>
           /\ last_parameter' = 0
           /\ parameter_value_per_inst' = <<>>
           /\ parameter_size_per_inst' = <<>>
           /\ parameter_label_per_inst' = <<>>
           /\ UNCHANGED <<edges, call_arg_map, array_base, ready_mode, variables,
                          num_of_reg_dep, num_of_mem_dep, callee_function,
                          callee_dynamic_function, last_call_source,
                          unique_reg_in_caller_func, rename_vars,
                          register_edge_table, memory_edge_table>>

\* is_function_returned that takes the Ret of any function.
is_function_returned_any(microop, curr_static_function, target_function) ==
  microop = LLVM_IR_Ret

\* DDDG::is_function_returned.
is_function_returned(microop, curr_static_function, target_function) ==
  microop = LLVM_IR_Ret /\ target_function = curr_static_function

----------------------------------------------------------------------------
(* DDDG::parse_parameter.                                                  *)

\* Ops whose parameters are kept in the per-instruction scratch (line 396).
CarriesAddress(m) ==
  m \in {LLVM_IR_Load, LLVM_IR_Store, LLVM_IR_GetElementPtr} \/ is_dma_op(m)

\* Lines 362-370: <<invocations, callee_function, callee_dynamic_function>>
\* after the first-parameter bookkeeping.
CalleeBookkeeping(label) ==
  IF last_parameter # 0
  THEN <<invocations, callee_function, callee_dynamic_function>>
  ELSE LET inv1 == IF curr_microop = LLVM_IR_Call
                   THEN InsertFunction(invocations, label) ELSE invocations
           callee == IF curr_microop = LLVM_IR_Call THEN label
                     ELSE callee_function
       IN  <<inv1, callee,
             IF callee # nullptr
             THEN DynamicFunction(callee, inv1[callee] + 1)
             ELSE callee_dynamic_function>>

\* RegisterRead that keeps a Call's resolved operand as last_call_source
\* without recording the edge.
RegisterReadCallSource(param_tag, label) ==
  LET unique_reg_ref == DynamicVariable(curr_dynamic_function, label)
  IN  IF unique_reg_ref \in DOMAIN register_last_written
      THEN IF curr_microop = LLVM_IR_Call
           THEN <<register_last_written, register_edge_table, num_of_reg_dep,
                  register_last_written[unique_reg_ref]>>
           ELSE <<register_last_written,
                  register_edge_table (+)
                    SetToBag({<<register_last_written[unique_reg_ref],
                                current_node_id, param_tag>>}),
                  num_of_reg_dep + 1, NoNode>>
      ELSE IF \/ (curr_microop = LLVM_IR_Store /\ param_tag = 2)
              \/ (curr_microop = LLVM_IR_Load /\ param_tag = 1)
           THEN <<Put(register_last_written, unique_reg_ref, current_node_id),
                  register_edge_table, num_of_reg_dep, NoNode>>
           ELSE <<register_last_written, register_edge_table, num_of_reg_dep,
                  NoNode>>

\* RegisterRead that treats every address operand of a Load or Store as an
\* implicit GEP, before looking for a writer.
RegisterReadSeedFirst(param_tag, label) ==
  LET unique_reg_ref == DynamicVariable(curr_dynamic_function, label)
  IN  IF \/ (curr_microop = LLVM_IR_Store /\ param_tag = 2)
         \/ (curr_microop = LLVM_IR_Load /\ param_tag = 1)
      THEN <<Put(register_last_written, unique_reg_ref, current_node_id),
             register_edge_table, num_of_reg_dep, NoNode>>
      ELSE IF unique_reg_ref \in DOMAIN register_last_written
           THEN <<register_last_written,
                  register_edge_table (+)
                    SetToBag({<<register_last_written[unique_reg_ref],
                                current_node_id, param_tag>>}),
                  num_of_reg_dep + 1,
                  IF curr_microop = LLVM_IR_Call
                  THEN register_last_written[unique_reg_ref] ELSE NoNode>>
           ELSE <<register_last_written, register_edge_table, num_of_reg_dep,
                  NoNode>>

\* Lines 373-395, the register rename of an is_reg parameter:
\* <<register_last_written, register_edge_table, num_of_reg_dep,
\*   last_call_source>>.
RegisterRead(param_tag, label) ==
  LET unique_reg_ref == DynamicVariable(curr_dynamic_function, label)
  IN  IF unique_reg_ref \in DOMAIN register_last_written
      THEN <<register_last_written,
             register_edge_table (+)
               SetToBag({<<register_last_written[unique_reg_ref],
                           current_node_id, param_tag>>}),
             num_of_reg_dep + 1,
             IF curr_microop = LLVM_IR_Call
             THEN register_last_written[unique_reg_ref] ELSE NoNode>>
      ELSE IF \/ (curr_microop = LLVM_IR_Store /\ param_tag = 2)
              \/ (curr_microop = LLVM_IR_Load /\ param_tag = 1)
           THEN <<Put(register_last_written, unique_reg_ref, current_node_id),
                  register_edge_table, num_of_reg_dep, NoNode>>
           ELSE <<register_last_written, register_edge_table, num_of_reg_dep,
                  NoNode>>

\* StoreAddress that overwrites the last writer without looking at it.
StoreAddressOverwrite(mem_address, mem_size) ==
  <<Put(address_last_written, mem_address, current_node_id),
    memory_edge_table, num_of_mem_dep>>

\* Lines 417-435, the address parameter of a Store:
\* <<address_last_written, memory_edge_table, num_of_mem_dep>>.
StoreAddress(mem_address, mem_size) ==
  IF mem_address \in DOMAIN address_last_written
  THEN LET last_node_to_write == address_last_written[mem_address]
           tm == IF is_dma_load(nodes[last_node_to_write + 1].microop)
                 THEN handle_post_write_dependency(
                        <<memory_edge_table, num_of_mem_dep>>,
                        address_last_written, mem_address, mem_size,
                        current_node_id)
                 ELSE <<memory_edge_table, num_of_mem_dep>>
       IN  <<Put(address_last_written, mem_address, current_node_id),
             tm[1], tm[2]>>
  ELSE <<Put(address_last_written, mem_address, current_node_id),
         memory_edge_table, num_of_mem_dep>>

parse_parameter(param_tag, size, value, is_reg, label, prev_bbid) ==
  IF curr_microop = LLVM_IR_PHI /\ prev_bblock # prev_bbid
  THEN \* a parameter of an inactive incoming edge
       UNCHANGED <<pc, store_vars, count_vars, inst_vars, call_vars, fence_vars,
                   scratch_vars, rename_vars, table_vars>>
  ELSE
  LET callee == CalleeBookkeeping(label)
      vars1 == IF is_reg THEN variables \cup {label} ELSE variables
      reg == IF is_reg THEN RegisterRead(param_tag, label)
             ELSE <<register_last_written, register_edge_table, num_of_reg_dep,
                    NoNode>>
      carries == CarriesAddress(curr_microop)
      values1 == IF carries THEN Append(parameter_value_per_inst, value)
                 ELSE parameter_value_per_inst
      sizes1 == IF carries THEN Append(parameter_size_per_inst, size)
                ELSE parameter_size_per_inst
      labels1 == IF carries THEN Append(parameter_label_per_inst, label)
                 ELSE parameter_label_per_inst
      is_load1 == param_tag = 1 /\ curr_microop = LLVM_IR_Load
      is_store1 == param_tag = 1 /\ curr_microop = LLVM_IR_Store
      is_store2 == param_tag = 2 /\ curr_microop = LLVM_IR_Store
      is_gep1 == param_tag = 1 /\ curr_microop = LLVM_IR_GetElementPtr
      store == IF is_store2 THEN StoreAddress(values1[1], size \div BYTE)
               ELSE <<address_last_written, memory_edge_table, num_of_mem_dep>>
      real_array == get_array_real_var(vars1, call_arg_map,
                                       curr_dynamic_function, label)
      node == nodes[current_node_id + 1]
      node1 ==
        IF is_load1
        THEN [node EXCEPT !.variable = GetVariable(vars1, label),
                          !.array_label = label]
        ELSE IF is_store1
        THEN [node EXCEPT !.mem_access =
                [valid |-> TRUE, vaddr |-> values1[1], size |-> size \div BYTE]]
        ELSE IF is_store2
        THEN [node EXCEPT !.variable = GetVariable(vars1, labels1[1]),
                          !.array_label = labels1[1]]
        ELSE IF is_gep1
        THEN [node EXCEPT !.variable = GetVariable(vars1, label),
                          !.array_label = real_array]
        ELSE node
  IN  IF is_gep1 /\ real_array = nullptr
      THEN \* real_array->get_name() on a null Variable
           /\ pc' = "aborted"
           /\ UNCHANGED <<store_vars, count_vars, inst_vars, call_vars,
                          fence_vars, scratch_vars, rename_vars, table_vars>>
      ELSE /\ pc' = pc
           /\ invocations' = callee[1]
           /\ callee_function' = callee[2]
           /\ callee_dynamic_function' = callee[3]
           /\ last_parameter' = 1
           /\ variables' = vars1
           /\ unique_reg_in_caller_func' =
                IF is_reg /\ curr_microop = LLVM_IR_Call
                THEN DynamicVariable(curr_dynamic_function, label)
                ELSE unique_reg_in_caller_func
           /\ register_last_written' = reg[1]
           /\ register_edge_table' = reg[2]
           /\ num_of_reg_dep' = reg[3]
           /\ last_call_source' = reg[4]
           /\ parameter_value_per_inst' = values1
           /\ parameter_size_per_inst' = sizes1
           /\ parameter_label_per_inst' = labels1
           /\ address_last_written' = store[1]
           /\ memory_edge_table' = store[2]
           /\ num_of_mem_dep' = store[3]
           /\ nodes' = [nodes EXCEPT ![current_node_id + 1] = node1]
           /\ array_base' = IF is_gep1
                            THEN array_base \cup {<<real_array, value>>}
                            ELSE array_base
           /\ UNCHANGED <<edges, call_arg_map, ready_mode, num_of_ctrl_dep,
                          num_of_instructions, current_node_id, prev_bblock,
                          curr_bblock, curr_microop, prev_microop,
                          curr_dynamic_function, active_method, fence_vars,
                          control_edge_table>>

----------------------------------------------------------------------------
(* DDDG::parse_result.                                                     *)

\* Lines 496-515, the DMA interface version by the number of parameters.  The
\* assertion of line 513 tests a string literal and never fires.
DmaAccess(values) ==
  IF Len(values) = 4
  THEN [valid |-> TRUE, base_addr |-> values[2], src_off |-> values[3],
        dst_off |-> values[3], size |-> values[4]]
  ELSE IF Len(values) = 5
  THEN [valid |-> TRUE, base_addr |-> values[2], src_off |-> values[3],
        dst_off |-> values[4], size |-> values[5]]
  ELSE [valid |-> TRUE, base_addr |-> 0, src_off |-> 0, dst_off |-> 0,
        size |-> 0]

\* WriteRange that records the first byte of the range alone.
WriteRangeFirstByte(alw, start_addr, size, node_id) ==
  IF size > 0 THEN Put(alw, start_addr, node_id) ELSE alw

\* Lines 526-534: every byte of [start_addr, start_addr + size) is last
\* written by node_id.
WriteRange(alw, start_addr, size, node_id) ==
  [a \in DOMAIN alw \cup (start_addr .. (start_addr + size - 1)) |->
     IF a \in start_addr .. (start_addr + size - 1) THEN node_id ELSE alw[a]]

parse_result(size, value, is_reg, label) ==
  IF ~is_reg
  THEN \* assert(is_reg)
       /\ pc' = "aborted"
       /\ UNCHANGED <<store_vars, count_vars, inst_vars, call_vars, fence_vars,
                      scratch_vars, rename_vars, table_vars>>
  ELSE
  LET unique_reg_ref == DynamicVariable(curr_dynamic_function, label)
      node == nodes[current_node_id + 1]
      mem_address == parameter_value_per_inst[Len(parameter_value_per_inst)]
      tm0 == <<memory_edge_table, num_of_mem_dep>>
      dma == DmaAccess(parameter_value_per_inst)
      is_dma == is_dma_op(curr_microop)
      node1 ==
        IF curr_microop = LLVM_IR_Alloca
        THEN [node EXCEPT !.variable = label, !.array_label = label]
        ELSE IF curr_microop = LLVM_IR_Load
        THEN [node EXCEPT !.mem_access =
                [valid |-> TRUE, vaddr |-> mem_address, size |-> size \div BYTE]]
        ELSE IF is_dma THEN [node EXCEPT !.dma_mem_access = dma]
        ELSE node
      tm1 ==
        IF curr_microop = LLVM_IR_Load
        THEN handle_post_write_dependency(tm0, address_last_written,
                                          mem_address, size \div BYTE,
                                          current_node_id)
        ELSE IF is_dma /\ curr_microop # LLVM_IR_DMALoad
        THEN handle_post_write_dependency(tm0, address_last_written,
                                          dma.base_addr + dma.src_off, dma.size,
                                          current_node_id)
        ELSE tm0
  IN  /\ pc' = pc
      /\ variables' = variables \cup {label}
      /\ register_last_written' =
           Put(register_last_written, unique_reg_ref, current_node_id)
      /\ nodes' = [nodes EXCEPT ![current_node_id + 1] = node1]
      /\ array_base' = IF curr_microop = LLVM_IR_Alloca
                       THEN array_base \cup {<<label, value>>} ELSE array_base
      /\ memory_edge_table' = tm1[1]
      /\ num_of_mem_dep' = tm1[2]
      /\ address_last_written' =
           IF is_dma /\ curr_microop = LLVM_IR_DMALoad /\ ~ready_mode
           THEN WriteRange(address_last_written, dma.base_addr + dma.dst_off,
                           dma.size, current_node_id)
           ELSE address_last_written
      /\ UNCHANGED <<edges, call_arg_map, ready_mode, invocations,
                     num_of_reg_dep, num_of_ctrl_dep, num_of_instructions,
                     inst_vars, call_vars, fence_vars, scratch_vars,
                     register_edge_table, control_edge_table>>

----------------------------------------------------------------------------
(* DDDG::parse_forward.                                                    *)

parse_forward(is_reg, label) ==
  IF is_dma_op(curr_microop) \/ is_trig_op(curr_microop)
  THEN UNCHANGED <<pc, store_vars, count_vars, inst_vars, call_vars, fence_vars,
                   scratch_vars, rename_vars, table_vars>>
  ELSE IF ~is_reg \/ ~is_call_op(curr_microop)
  THEN \* assert(is_reg), assert(curr_node->is_call_op())
       /\ pc' = "aborted"
       /\ UNCHANGED <<store_vars, count_vars, inst_vars, call_vars, fence_vars,
                      scratch_vars, rename_vars, table_vars>>
  ELSE LET unique_reg_ref == DynamicVariable(callee_dynamic_function, label)
       IN  /\ pc' = pc
           /\ variables' = variables \cup {label}
           /\ call_arg_map' =
                IF IsSet(unique_reg_in_caller_func)
                THEN Put(call_arg_map, unique_reg_ref, unique_reg_in_caller_func)
                ELSE call_arg_map
           /\ unique_reg_in_caller_func' = NullDynamicVariable
           /\ register_last_written' =
                Put(register_last_written, unique_reg_ref,
                    IF last_call_source # NoNode THEN last_call_source
                    ELSE current_node_id)
           /\ UNCHANGED <<nodes, edges, array_base, ready_mode, invocations,
                          count_vars, inst_vars, callee_function,
                          callee_dynamic_function, curr_dynamic_function,
                          active_method, last_call_source, fence_vars,
                          scratch_vars, address_last_written, table_vars>>

----------------------------------------------------------------------------
(* DDDG::output_dddg: the flush of the three tables into the program store. *)

RECURSIVE FlushRegisterEdges(_, _)
FlushRegisterEdges(E, table) ==
  IF BagToSet(table) = {} THEN E
  ELSE LET it == CHOOSE x \in BagToSet(table) : TRUE
       IN  FlushRegisterEdges(AddEdge(E, <<it[1], it[2], RegisterEdge(it[3])>>),
                              table (-) SetToBag({it}))

RECURSIVE FlushPairs(_, _, _)
FlushPairs(E, pairs, label) ==
  IF pairs = {} THEN E
  ELSE LET it == CHOOSE x \in pairs : TRUE
       IN  FlushPairs(AddEdge(E, <<it[1], it[2], label>>), pairs \ {it}, label)

PairsOf(table) ==
  UNION {{<<source, sink_node>> : sink_node \in table[source]} :
           source \in DOMAIN table}

output_dddg(E) ==
  FlushPairs(
    FlushPairs(FlushRegisterEdges(E, register_edge_table),
               PairsOf(memory_edge_table), MEMORY_EDGE),
    PairsOf(control_edge_table), CONTROL_EDGE)

----------------------------------------------------------------------------
(* DDDG::build_initial_dddg: one step per line of the trace.               *)
(*                                                                         *)
(* The trace producer writes, for each executed instruction, the tag-0     *)
(* line, then the operands from the highest slot down (a Store's slot 2    *)
(* comes before its slot 1), a Forward line after a Call's argument, and   *)
(* the Result line last.  tag0_lines, last_tag, operand_lines, forwarded   *)
(* and result_seen hold the producer's position in that format.            *)
(*                                                                         *)
(* frames .. register_reads do not belong to the builder: they record what *)
(* the traced program did according to the lines read, so that properties  *)
(* can compare the builder's state with it.  An instruction that follows a *)
(* Call and lies in the Call's callee enters a new frame; the instruction  *)
(* after a Ret runs in the frame below.                                    *)

\* Finish that takes a trace of one instruction for an empty one.
FinishByCount ==
  /\ pc' = "done"
  /\ edges' = IF num_of_instructions > 0 THEN output_dddg(edges) ELSE edges
  /\ returned' = IF num_of_instructions > 0 THEN "offset" ELSE "END_OF_TRACE"
  /\ UNCHANGED <<seen_first_line, first_function, first_function_returned,
                 producer_vars, program_vars, nodes, call_arg_map, array_base,
                 ready_mode, invocations, variables, count_vars, inst_vars,
                 call_vars, fence_vars, scratch_vars, rename_vars, table_vars,
                 codec_vars>>

\* Lines 689-709: leave the read loop.
Finish ==
  /\ pc' = "done"
  /\ edges' = IF seen_first_line THEN output_dddg(edges) ELSE edges
  /\ returned' = IF seen_first_line THEN "offset" ELSE "END_OF_TRACE"
  /\ UNCHANGED <<seen_first_line, first_function, first_function_returned,
                 producer_vars, program_vars, nodes, call_arg_map, array_base,
                 ready_mode, invocations, variables, count_vars, inst_vars,
                 call_vars, fence_vars, scratch_vars, rename_vars, table_vars,
                 codec_vars>>

\* The frames once the previous instruction, if a Ret, has returned.
FramesBelow ==
  IF tag0_lines > 0 /\ curr_microop = LLVM_IR_Ret /\ frames # <<>>
  THEN SubSeq(frames, 1, Len(frames) - 1) ELSE frames

\* The instruction about to be read is the first one of the callee.
Entering(function) ==
  tag0_lines > 0 /\ curr_microop = LLVM_IR_Call /\ call_target = function

\* The functions the traced program can be executing next: the callee after
\* a Call, else the function of the top frame.
WellNested(function) ==
  IF tag0_lines > 0 /\ curr_microop = LLVM_IR_Call /\ call_target # nullptr
  THEN Entering(function)
  ELSE IF FramesBelow = <<>> THEN TRUE
       ELSE function = FramesBelow[Len(FramesBelow)].function

\* The outermost caller-side register behind a register of the top frame.
Origin(label) ==
  IF frames # <<>> /\ label \in DOMAIN frames[Len(frames)].alias
  THEN frames[Len(frames)].alias[label] ELSE label

\* A tag-0 line (lines 673-679).
InstructionLine(curr_static_function, bblockname, loop_depth, microop, node_id) ==
  /\ pc = "reading"
  /\ seen_first_line' = TRUE
  /\ first_function' = IF seen_first_line THEN first_function
                       ELSE curr_static_function
  /\ first_function_returned' =
       is_function_returned(microop, curr_static_function, first_function')
  /\ parse_instruction_line(curr_static_function, bblockname, loop_depth,
                            microop, node_id)
  /\ tag0_lines' = tag0_lines + 1
  /\ last_tag' = 0
  /\ operand_lines' = 0
  /\ forwarded' = FALSE
  /\ result_seen' = FALSE
  /\ frames' =
       IF Entering(curr_static_function) \/ FramesBelow = <<>>
       THEN Append(FramesBelow,
                   [function |-> curr_static_function,
                    alias |-> IF Entering(curr_static_function)
                              THEN pending_alias ELSE EmptyMap,
                    entry |-> Len(nodes)])
       ELSE FramesBelow
  /\ executing' =
       IF nodes' = nodes THEN executing
       ELSE Append(executing, [entry |-> frames'[Len(frames')].entry,
                               dyn_func |-> curr_dynamic_function'])
  /\ call_target' = nullptr
  /\ pending_actual' = nullptr
  /\ pending_alias' = EmptyMap
  /\ UNCHANGED <<returned, register_reads, codec_vars>>

\* A line whose tag is a parameter slot (line 685).
ParameterLine(param_tag, size, value, is_reg, label, prev_bbid) ==
  /\ pc = "reading"
  /\ num_of_instructions >= 0
  /\ ~result_seen
  /\ parse_parameter(param_tag, size, value, is_reg, label, prev_bbid)
  /\ last_tag' = param_tag
  /\ operand_lines' = operand_lines + 1
  /\ forwarded' = FALSE
  /\ call_target' = IF curr_microop = LLVM_IR_Call /\ operand_lines = 0
                    THEN label ELSE call_target
  /\ pending_actual' = IF curr_microop # LLVM_IR_Call THEN pending_actual
                       ELSE IF is_reg THEN Origin(label) ELSE nullptr
  /\ register_reads' =
       LET unique_reg_ref == DynamicVariable(curr_dynamic_function, label)
       IN  IF /\ is_reg
              /\ ~(curr_microop = LLVM_IR_PHI /\ prev_bblock # prev_bbid)
              /\ unique_reg_ref \in DOMAIN register_last_written
           THEN register_reads \cup
                  {<<register_last_written[unique_reg_ref], current_node_id,
                     param_tag>>}
           ELSE register_reads
  /\ UNCHANGED <<seen_first_line, first_function, first_function_returned,
                 returned, tag0_lines, result_seen, frames, pending_alias,
                 executing, codec_vars>>

\* An "r" line (line 681); a Load's comes after its address operand.
ResultLine(size, value, is_reg, label) ==
  /\ pc = "reading"
  /\ num_of_instructions >= 0
  /\ ~result_seen
  /\ curr_microop = LLVM_IR_Load => parameter_value_per_inst # <<>>
  /\ parse_result(size, value, is_reg, label)
  /\ result_seen' = TRUE
  /\ UNCHANGED <<seen_first_line, first_function, first_function_returned,
                 returned, tag0_lines, last_tag, operand_lines, forwarded,
                 program_vars, codec_vars>>

\* An "f" line (line 683); it follows a Parameter line of its instruction.
ForwardLine(is_reg, label) ==
  /\ pc = "reading"
  /\ num_of_instructions >= 0
  /\ ~result_seen
  /\ last_parameter = 1
  /\ ~forwarded
  /\ parse_forward(is_reg, label)
  /\ forwarded' = TRUE
  /\ pending_alias' = IF is_call_op(curr_microop) /\ pending_actual # nullptr
                      THEN Put(pending_alias, label, pending_actual)
                      ELSE pending_alias
  /\ pending_actual' = nullptr
  /\ UNCHANGED <<seen_first_line, first_function, first_function_returned,
                 returned, tag0_lines, last_tag, operand_lines, result_seen,
                 frames, call_target, register_reads, executing, codec_vars>>

\* A line without a comma (lines 664-668): the end once the first function
\* has returned, skipped before.
TaglessLine ==
  /\ pc = "reading"
  /\ IF first_function_returned THEN Finish ELSE UNCHANGED vars

\* gzeof: the loop condition of line 636 fails.
EndOfTrace ==
  /\ pc = "reading"
  /\ Finish

\* The operands of an instruction come from the highest slot down.
Descending(param_tag) == last_tag = 0 \/ param_tag < last_tag

\* What a build may find in the uninitialised curr_microop: a PHI or not (the
\* first instruction only asks whether prev_microop is a PHI).
Indeterminate == {LLVM_IR_Add, LLVM_IR_PHI}

\* The DDDG constructor (lines 76-91) and empty collaborators.
Init ==
  /\ pc = "reading"
  /\ seen_first_line = FALSE
  /\ first_function = ""
  /\ first_function_returned = FALSE
  /\ returned = ""
  /\ tag0_lines = 0
  /\ last_tag = 0
  /\ operand_lines = 0
  /\ forwarded = FALSE
  /\ result_seen = FALSE
  /\ frames = <<>>
  /\ call_target = nullptr
  /\ pending_actual = nullptr
  /\ pending_alias = EmptyMap
  /\ register_reads = {}
  /\ executing = <<>>
  /\ nodes = <<>>
  /\ edges = EmptyBag
  /\ call_arg_map = EmptyMap
  /\ array_base = {}
  /\ ready_mode \in BOOLEAN
  /\ invocations = EmptyMap
  /\ variables = {}
  /\ num_of_reg_dep = 0
  /\ num_of_mem_dep = 0
  /\ num_of_ctrl_dep = 0
  /\ num_of_instructions = -1
  /\ current_node_id = -1
  /\ last_parameter = 0
  /\ last_dma_fence = NoNode
  /\ prev_bblock = NoBlock
  /\ curr_bblock = NoBlock
  /\ callee_function = nullptr
  /\ last_ret = NoNode
  /\ curr_microop \in Indeterminate
  /\ prev_microop = curr_microop
  /\ callee_dynamic_function = NullDynamicFunction
  /\ curr_dynamic_function = NullDynamicFunction
  /\ active_method = <<>>
  /\ nodes_since_last_ret = <<>>
  /\ last_dma_nodes = <<>>
  /\ last_call_source = NoNode
  /\ unique_reg_in_caller_func = NullDynamicVariable
  /\ parameter_value_per_inst = <<>>
  /\ parameter_size_per_inst = <<>>
  /\ parameter_label_per_inst = <<>>
  /\ register_last_written = EmptyMap
  /\ address_last_written = EmptyMap
  /\ register_edge_table = EmptyBag
  /\ memory_edge_table = EmptyMap
  /\ control_edge_table = EmptyMap

----------------------------------------------------------------------------
(* Memory traces: Loads and Stores of one function over a few bytes.  The  *)
(* address register is p; a Store's value operand is the register p or q,  *)
(* 8 or 16 bits wide.                                                      *)

MaxMemNodes == 3
PointerSize == 8 * BYTE
MemSizes == {8, 16}
MemAddrs == 0 .. 1

\* No codec call is under way: the buffers are empty.
CodecIdle ==
  /\ str_buf = <<>>
  /\ byte_buf = <<>>
  /\ codec_input = [kind |-> "none", value |-> <<>>]
  /\ codec_calls = <<>>

InitIdle == Init /\ CodecIdle

InitMem == Init /\ ~ready_mode /\ CodecIdle

MemInstruction ==
  \E microop \in {LLVM_IR_Load, LLVM_IR_Store} :
       /\ Len(nodes) < MaxMemNodes
       /\ InstructionLine("f", "bb", 0, microop, Len(nodes))

MemAddressParameter ==
  \E value \in MemAddrs :
       /\ curr_microop \in {LLVM_IR_Load, LLVM_IR_Store}
       /\ LET param_tag == IF curr_microop = LLVM_IR_Load THEN 1 ELSE 2
          IN  /\ Descending(param_tag)
              /\ ParameterLine(param_tag, PointerSize, value, TRUE, "p", NoBlock)

MemValueParameter ==
  \E size \in MemSizes, label \in {"p", "q"} :
       /\ curr_microop = LLVM_IR_Store
       /\ Descending(1)
       /\ ParameterLine(1, size, 0, TRUE, label, NoBlock)

MemResult ==
  \E size \in MemSizes :
       /\ curr_microop = LLVM_IR_Load
       /\ ResultLine(size, 0, TRUE, "v")

NextMem ==
  \/ MemInstruction
  \/ MemAddressParameter
  \/ MemValueParameter
  \/ MemResult
  \/ TaglessLine
  \/ EndOfTrace

SpecMem == InitMem /\ [][NextMem]_vars

----------------------------------------------------------------------------
(* Control traces: calls, returns, DMA operations and fences of one        *)
(* function, with arithmetic in between.  A tag-0 line may carry a node id *)
(* that is not the next one.                                               *)

MaxCtrlNodes == 4

CtrlInstruction ==
  \E microop \in {LLVM_IR_Call, LLVM_IR_Ret, LLVM_IR_Add, LLVM_IR_DMALoad,
                  LLVM_IR_DMAStore, LLVM_IR_DMAFence},
     node_id \in {Len(nodes), Len(nodes) + 1} :
       /\ Len(nodes) < MaxCtrlNodes
       /\ InstructionLine("f", "bb", 0, microop, node_id)

CtrlParameter ==
  /\ curr_microop = LLVM_IR_Add
  /\ Descending(1)
  /\ ParameterLine(1, 32, 0, FALSE, "x", NoBlock)

CtrlResult ==
  /\ curr_microop = LLVM_IR_Add
  /\ ResultLine(32, 0, TRUE, "x")

NextCtrl ==
  \/ CtrlInstruction
  \/ CtrlParameter
  \/ CtrlResult
  \/ TaglessLine
  \/ EndOfTrace

SpecCtrl == InitMem /\ [][NextCtrl]_vars

----------------------------------------------------------------------------
(* Call traces: the functions f and g call each other, pass the array      *)
(* register arr or the formal p as the argument (forwarded to the formal   *)
(* p), return, and compute element addresses from p.  A Forward line       *)
(* follows every argument, and the callee's first instruction follows the *)
(* Call's lines.                                                           *)

MaxCallNodes == 4
Functions == {"f", "g"}
Arrays == {"arr", "p"}
BaseAddress == 1

CallInstruction ==
  \E function \in Functions,
     microop \in {LLVM_IR_Call, LLVM_IR_Ret, LLVM_IR_GetElementPtr} :
       /\ Len(nodes) < MaxCallNodes
       /\ WellNested(function)
       /\ curr_microop = LLVM_IR_Call /\ tag0_lines > 0 => call_target # nullptr
       /\ curr_microop = LLVM_IR_Call /\ last_tag = 1 => forwarded
       /\ InstructionLine(function, "bb", 0, microop, Len(nodes))

\* The last operand of a Call names the callee.
CallCallee ==
  \E function \in Functions :
    /\ curr_microop = LLVM_IR_Call
    /\ Descending(2)
    /\ ParameterLine(2, PointerSize, 0, FALSE, function, NoBlock)

CallArgument ==
  \E label \in Arrays :
    /\ curr_microop = LLVM_IR_Call
    /\ last_tag = 2
    /\ ParameterLine(1, PointerSize, BaseAddress, TRUE, label, NoBlock)

CallForward ==
  /\ curr_microop = LLVM_IR_Call
  /\ last_tag = 1
  /\ ForwardLine(TRUE, "p")

CallElementPtr ==
  /\ curr_microop = LLVM_IR_GetElementPtr
  /\ Descending(1)
  /\ ParameterLine(1, PointerSize, BaseAddress, TRUE, "p", NoBlock)

NextCall ==
  \/ CallInstruction
  \/ CallCallee
  \/ CallArgument
  \/ CallForward
  \/ CallElementPtr
  \/ TaglessLine
  \/ EndOfTrace

SpecCall == InitMem /\ [][NextCall]_vars

----------------------------------------------------------------------------
(* Repeated records: a DMA load fills two bytes and Loads read them; the   *)
(* line of a Load's address operand may come twice.                        *)

MaxDupNodes == 3
MaxReads == 2
DmaOperands == 4
DmaBytes == 2

DupInstruction ==
  \E microop \in {LLVM_IR_DMALoad, LLVM_IR_Load} :
    /\ Len(nodes) < MaxDupNodes
    /\ InstructionLine("f", "bb", 0, microop, Len(nodes))

\* A dmaLoad call of the first interface: callee, base address, offset, size.
DupDmaOperand ==
  /\ curr_microop = LLVM_IR_DMALoad
  /\ operand_lines < DmaOperands
  /\ ParameterLine(DmaOperands - operand_lines, PointerSize,
                   IF operand_lines = DmaOperands - 1 THEN DmaBytes ELSE 0,
                   FALSE, "dmaLoad", NoBlock)

DupRead ==
  /\ curr_microop = LLVM_IR_Load
  /\ operand_lines < MaxReads
  /\ ParameterLine(1, PointerSize, 0, TRUE, "x", NoBlock)

DupResult ==
  \E size \in MemSizes :
    /\ curr_microop = LLVM_IR_DMALoad => operand_lines = DmaOperands
    /\ ResultLine(size, 0, TRUE, "x")

NextDup ==
  \/ DupInstruction
  \/ DupDmaOperand
  \/ DupRead
  \/ DupResult
  \/ TaglessLine
  \/ EndOfTrace

SpecDup == InitMem /\ [][NextDup]_vars

----------------------------------------------------------------------------
(* Register chains: one function allocates, stores 5 through the register  *)
(* a, loads through a into b and returns.                                  *)

MaxChainNodes == 4

ChainInstruction ==
  \E microop \in {LLVM_IR_Alloca, LLVM_IR_Store, LLVM_IR_Load, LLVM_IR_Ret} :
    /\ Len(nodes) < MaxChainNodes
    /\ InstructionLine("f", "bb", 0, microop, Len(nodes))

ChainAddress ==
  \E value \in MemAddrs :
    /\ curr_microop \in {LLVM_IR_Store, LLVM_IR_Load}
    /\ last_tag = 0
    /\ ParameterLine(IF curr_microop = LLVM_IR_Store THEN 2 ELSE 1,
                     PointerSize, value, TRUE, "a", NoBlock)

ChainValue ==
  /\ curr_microop = LLVM_IR_Store
  /\ last_tag = 2
  /\ ParameterLine(1, BYTE, 5, FALSE, "5", NoBlock)

ChainResult ==
  /\ curr_microop \in {LLVM_IR_Alloca, LLVM_IR_Load}
  /\ ResultLine(IF curr_microop = LLVM_IR_Alloca THEN PointerSize ELSE BYTE,
                0, TRUE,
                IF curr_microop = LLVM_IR_Alloca THEN "a" ELSE "b")

NextChain ==
  \/ ChainInstruction
  \/ ChainAddress
  \/ ChainValue
  \/ ChainResult
  \/ TaglessLine
  \/ EndOfTrace

SpecChain == InitMem /\ [][NextChain]_vars

----------------------------------------------------------------------------
(* PHI traces: arithmetic producing the registers x and y in the blocks A  *)
(* and B, and the instruction  phi [x, A], [y, B]  whose slot 2 names the  *)
(* incoming edge from A and whose slot 1 names the one from B.             *)

MaxPhiNodes == 3
Blocks == {"A", "B"}
PhiOperand(param_tag) == IF param_tag = 2 THEN "x" ELSE "y"
PhiIncoming(param_tag) == IF param_tag = 2 THEN <<"A", 0>> ELSE <<"B", 0>>

PhiInstruction ==
  \E microop \in {LLVM_IR_Add, LLVM_IR_PHI}, bblockname \in Blocks :
    /\ Len(nodes) < MaxPhiNodes
    /\ InstructionLine("f", bblockname, 0, microop, Len(nodes))

PhiParameter ==
  \E param_tag \in {1, 2} :
    /\ curr_microop = LLVM_IR_PHI
    /\ Descending(param_tag)
    /\ ParameterLine(param_tag, 4 * BYTE, 0, TRUE, PhiOperand(param_tag),
                     PhiIncoming(param_tag))

PhiResult ==
  \E label \in {"x", "y"} :
    /\ curr_microop = LLVM_IR_PHI => label = "x"
    /\ ResultLine(4 * BYTE, 0, TRUE, label)

NextPhi ==
  \/ PhiInstruction
  \/ PhiParameter
  \/ PhiResult
  \/ TaglessLine
  \/ EndOfTrace

SpecPhi == InitIdle /\ [][NextPhi]_vars

----------------------------------------------------------------------------
(* DMA traces: dmaLoad calls of three to five operands (callee, base       *)
(* address, [source offset,] offset, size) into the bytes 1 .. 4, and      *)
(* one-byte Loads and one- or two-byte Stores at the addresses 1 and 2,    *)
(* with the datapath in ready mode or not.                                 *)

MaxDmaNodes == 3
DmaCounts == {3, 4, 5}
DmaValues == {1, 2}
DmaAddrs == {1, 2}

DmaInstruction ==
  \E microop \in {LLVM_IR_DMALoad, LLVM_IR_Load, LLVM_IR_Store} :
    /\ Len(nodes) < MaxDmaNodes
    /\ tag0_lines > 0 /\ curr_microop \in {LLVM_IR_Store, LLVM_IR_DMALoad}
         => last_tag = 1
    /\ InstructionLine("f", "bb", 0, microop, Len(nodes))

\* The operands of the call, from the callee down to the size in slot 1; the
\* offset next to the size is the destination offset.
DmaOperand(param_tag, value) ==
  /\ curr_microop = LLVM_IR_DMALoad
  /\ IF last_tag = 0 THEN param_tag \in DmaCounts ELSE param_tag = last_tag - 1
  /\ IF param_tag <= 2 THEN value \in DmaValues ELSE value = 0
  /\ ParameterLine(param_tag, PointerSize, value, FALSE, "dmaLoad", NoBlock)

DmaOperandLine ==
  \E param_tag \in 1 .. 5, value \in {0} \cup DmaValues :
    DmaOperand(param_tag, value)

DmaLoadAddress(value) ==
  /\ curr_microop = LLVM_IR_Load
  /\ last_tag = 0
  /\ ParameterLine(1, PointerSize, value, TRUE, "p", NoBlock)

DmaStoreAddress(value) ==
  /\ curr_microop = LLVM_IR_Store
  /\ last_tag = 0
  /\ ParameterLine(2, PointerSize, value, TRUE, "p", NoBlock)

DmaAddressLine ==
  \E value \in DmaAddrs :
    IF curr_microop = LLVM_IR_Load THEN DmaLoadAddress(value)
    ELSE DmaStoreAddress(value)

DmaStoreValue ==
  \E size \in MemSizes :
    /\ curr_microop = LLVM_IR_Store
    /\ last_tag = 2
    /\ ParameterLine(1, size, 0, FALSE, "0", NoBlock)

DmaResult ==
  /\ curr_microop \in {LLVM_IR_DMALoad, LLVM_IR_Load}
  /\ last_tag = 1
  /\ ResultLine(BYTE, 0, TRUE, "v")

NextDma ==
  \/ DmaInstruction
  \/ DmaOperandLine
  \/ DmaAddressLine
  \/ DmaStoreValue
  \/ DmaResult
  \/ TaglessLine
  \/ EndOfTrace

SpecDma == InitIdle /\ [][NextDma]_vars

----------------------------------------------------------------------------
(* Properties.                                                             *)

\* Node ids and the edges of the program store as a set.
NodeIds == 0 .. Len(nodes) - 1
Node(n) == nodes[n + 1]
EdgeSet == BagToSet(edges)
Max(S) == CHOOSE x \in S : \A y \in S : y <= x
Bytes(addr, size) == addr .. (addr + size - 1)

\* C1: after the end-of-trace flush every edge (u, v, label) of the program
\* store has u < v: no register, memory or control edge is a self-edge or
\* points backwards in trace order.
C1_EdgesPointForward ==
  pc = "done" => \A e \in EdgeSet : e[1] < e[2]

\* Node n is a Store, both operands read, whose written range holds byte b.
StoreWrites(n, b) ==
  /\ Node(n).microop = LLVM_IR_Store
  /\ Node(n).array_label # ""
  /\ Node(n).mem_access.valid
  /\ b \in Bytes(Node(n).mem_access.vaddr, Node(n).mem_access.size)

\* Node n is a DMALoad, not in ready-mode, whose destination holds byte b.
DmaLoadWrites(n, b) ==
  /\ Node(n).microop = LLVM_IR_DMALoad
  /\ ~ready_mode
  /\ Node(n).dma_mem_access.valid
  /\ b \in Bytes(Node(n).dma_mem_access.base_addr + Node(n).dma_mem_access.dst_off,
                 Node(n).dma_mem_access.size)

WritersBefore(n, b) ==
  {w \in 0 .. n - 1 : StoreWrites(w, b) \/ DmaLoadWrites(w, b)}

\* C2: after the flush, for every Load L and every byte b of the range of its
\* Result record: if an earlier node wrote b, the program store holds a
\* memory edge from the most recent writer of b to L.
C2_LoadDependsOnLastWriter ==
  pc = "done" =>
    \A L \in NodeIds :
      Node(L).microop = LLVM_IR_Load /\ Node(L).mem_access.valid =>
        \A b \in Bytes(Node(L).mem_access.vaddr, Node(L).mem_access.size) :
          WritersBefore(L, b) # {} =>
            <<Max(WritersBefore(L, b)), L, MEMORY_EDGE>> \in EdgeSet

IsBoundary(n) == is_call_op(Node(n).microop) \/ is_ret_op(Node(n).microop)
IsDmaTransfer(n) == Node(n).microop \in {LLVM_IR_DMALoad, LLVM_IR_DMAStore}
IsFence(n) == Node(n).microop = LLVM_IR_DMAFence

\* C4: after the flush, every Call or Ret node C has a control edge N -> C
\* from every node N that is neither a DMA op nor a Call/Ret and was read
\* after the previous Call/Ret (or since the start) and before C; and while C
\* is the current instruction nodes_since_last_ret is empty.
C4_CallRetFence ==
  /\ pc = "done" =>
       \A C \in NodeIds : \A N \in 0 .. C - 1 :
         /\ IsBoundary(C)
         /\ \A k \in N .. C - 1 : ~IsBoundary(k)
         /\ ~is_dma_op(Node(N).microop)
         => <<N, C, CONTROL_EDGE>> \in EdgeSet
  /\ pc = "reading" /\ nodes # <<>> /\ IsBoundary(current_node_id)
       => nodes_since_last_ret = <<>>

C4_Witness ==
  /\ pc = "done"
  /\ Len(nodes) = 4
  /\ Node(0).microop = LLVM_IR_Add
  /\ Node(1).microop = LLVM_IR_DMALoad
  /\ Node(2).microop = LLVM_IR_Add
  /\ Node(3).microop = LLVM_IR_Ret
  /\ {<<0, 3, CONTROL_EDGE>>, <<2, 3, CONTROL_EDGE>>} \subseteq EdgeSet

\* C5: after the flush, every DMAFence F has a control edge D -> F from every
\* DMALoad/DMAStore D read after the previous DMAFence (or since the start)
\* and before F; and while F is the current instruction last_dma_nodes is
\* empty.
C5_DmaBeforeFence ==
  /\ pc = "done" =>
       \A F \in NodeIds : \A D \in 0 .. F - 1 :
         /\ IsFence(F)
         /\ IsDmaTransfer(D)
         /\ \A k \in D .. F - 1 : ~IsFence(k)
         => <<D, F, CONTROL_EDGE>> \in EdgeSet
  /\ pc = "reading" /\ nodes # <<>> /\ IsFence(current_node_id)
       => last_dma_nodes = <<>>

C5_Witness ==
  /\ pc = "done"
  /\ Len(nodes) = 4
  /\ IsFence(0) /\ IsDmaTransfer(1) /\ IsDmaTransfer(2) /\ IsFence(3)
  /\ {<<1, 3, CONTROL_EDGE>>, <<2, 3, CONTROL_EDGE>>} \subseteq EdgeSet

\* C6 as stated: after the flush, every DMAFence F has a control edge F -> D
\* to every DMALoad/DMAStore D read after F.
C6_EveryFenceBefore ==
  pc = "done" =>
    \A F \in NodeIds : \A D \in NodeIds :
      IsFence(F) /\ IsDmaTransfer(D) /\ F < D
      => <<F, D, CONTROL_EDGE>> \in EdgeSet

FencesBefore(D) == {F \in 0 .. D - 1 : IsFence(F)}

\* C6 as amended: after the flush, every DMALoad/DMAStore D read after some
\* DMAFence has a control edge F -> D from the most recent DMAFence F read
\* before D.
C6_LastFenceBefore ==
  pc = "done" =>
    \A D \in NodeIds :
      IsDmaTransfer(D) /\ FencesBefore(D) # {}
      => <<Max(FencesBefore(D)), D, CONTROL_EDGE>> \in EdgeSet

C6_Witness ==
  /\ pc = "done"
  /\ \E D \in NodeIds :
       /\ IsDmaTransfer(D)
       /\ Node(D).microop = LLVM_IR_DMAStore
       /\ Cardinality(FencesBefore(D)) = 2
       /\ <<Max(FencesBefore(D)), D, CONTROL_EDGE>> \in EdgeSet

\* C8: after any prefix of the trace, the number of nodes (num_nodes, and the
\* nodes of the program store) is the number of tag-0 lines read, and the
\* node ids are 0 .. n-1 in insertion order.
C8_NodesCountInstructions ==
  pc # "aborted" =>
    /\ num_nodes(num_of_instructions) = tag0_lines
    /\ Len(nodes) = tag0_lines
    /\ \A i \in 1 .. Len(nodes) : nodes[i].node_id = i - 1

C8_Witness ==
  /\ pc = "reading"
  /\ tag0_lines = 3
  /\ Len(nodes) = 3
  /\ operand_lines = 1
  /\ result_seen

\* C3: after the flush, every register read that register_last_written
\* resolved to a writer w when slot N of node v was read (an ignored PHI
\* parameter aside) is a register edge (w, v, N) of the program store.
C3_ResolvedReadsAreEdges ==
  pc = "done" =>
    \A read \in register_reads :
      <<read[1], read[2], RegisterEdge(read[3])>> \in EdgeSet

\* A callee's read of its formal, resolved to the node a Forward line wrote.
C3_Witness ==
  /\ pc = "done"
  /\ \E read \in register_reads :
       /\ read[1] < read[2]
       /\ Node(read[1]).microop = LLVM_IR_Call
       /\ Node(read[2]).microop = LLVM_IR_GetElementPtr
       /\ Node(read[2]).static_function # Node(read[1]).static_function
       /\ <<read[1], read[2], RegisterEdge(read[3])>> \in EdgeSet

\* The dynamic variables reached from those of S by call_arg_map.
RECURSIVE Reached(_, _)
Reached(cam, S) ==
  LET T == S \cup {cam[d] : d \in S \cap DOMAIN cam}
  IN  IF T = S THEN S ELSE Reached(cam, T)

\* The end of the chain of call_arg_map that starts at d.
ChainEnd(cam, d) == CHOOSE e \in Reached(cam, {d}) : e \notin DOMAIN cam

\* C9: for every interned name x, get_array_real_var(x) is the variable at
\* the end of the chain of call_arg_map from (curr_dynamic_function, x), x
\* itself when that key has no entry.
C9_RealVarIsChainEnd ==
  \A x \in variables :
    get_array_real_var(variables, call_arg_map, curr_dynamic_function, x)
      = ChainEnd(call_arg_map,
                 DynamicVariable(curr_dynamic_function, x)).variable

\* A formal two calls away from the array it names.
C9_Witness ==
  \E x \in variables :
    LET d == DynamicVariable(curr_dynamic_function, x)
    IN  /\ d \in DOMAIN call_arg_map
        /\ call_arg_map[d] \in DOMAIN call_arg_map
        /\ ChainEnd(call_arg_map, d).variable = "arr"
        /\ x = "p"
        /\ get_array_real_var(variables, call_arg_map,
                              curr_dynamic_function, x) = "arr"

\* C10: once the slot-1 parameter of a GetElementPtr on a formal p of the
\* running function has been read, where p was forwarded (through any depth
\* of calls) from the caller-side array arr, the node's array_label is arr,
\* (arr, base address) is registered with the datapath, and the node's
\* variable is p.
C10_GepNamesOutermostArray ==
  /\ pc = "reading"
  /\ curr_microop = LLVM_IR_GetElementPtr
  /\ operand_lines = 1
  /\ frames # <<>>
  /\ parameter_label_per_inst[1] \in DOMAIN frames[Len(frames)].alias
  => LET label == parameter_label_per_inst[1]
         arr == frames[Len(frames)].alias[label]
     IN  /\ Node(current_node_id).variable = label
         /\ Node(current_node_id).array_label = arr
         /\ <<arr, parameter_value_per_inst[1]>> \in array_base

\* C7: after the flush the program store holds every (source, sink, label)
\* triple at most once: for each pair of nodes one memory edge, one control
\* edge and one register edge per parameter slot at most, also when a
\* register read or an overlap of byte ranges was recorded more than once.
C7_EdgesAreUnique ==
  pc = "done" => \A e \in BagToSet(edges) : CopiesIn(e, edges) = 1

\* The same register read recorded twice, and two bytes of one writer read by
\* one Load.
C7_Witness ==
  /\ pc = "done"
  /\ \E it \in BagToSet(register_edge_table) :
       /\ CopiesIn(it, register_edge_table) = 2
       /\ CopiesIn(<<it[1], it[2], RegisterEdge(it[3])>>, edges) = 1
  /\ \E L \in NodeIds :
       /\ Node(L).microop = LLVM_IR_Load
       /\ Node(L).mem_access.size = 2
       /\ {0, 1} \subseteq DOMAIN address_last_written
       /\ address_last_written[0] = address_last_written[1]
       /\ CopiesIn(<<address_last_written[0], L, MEMORY_EDGE>>, edges) = 1

\* The trace read was: Alloca producing a; Store of 5 through a; Load into b
\* through a, at the Store's address; Ret.
IsRegisterChain ==
  /\ pc = "done"
  /\ Len(nodes) = 4
  /\ Node(0).microop = LLVM_IR_Alloca /\ Node(0).variable = "a"
  /\ Node(1).microop = LLVM_IR_Store /\ Node(1).variable = "a"
  /\ Node(1).mem_access.valid
  /\ Node(2).microop = LLVM_IR_Load /\ Node(2).variable = "a"
  /\ Node(2).mem_access.valid
  /\ Node(2).mem_access.vaddr = Node(1).mem_access.vaddr
  /\ Node(3).microop = LLVM_IR_Ret

ChainMemoryAndControl ==
  {<<1, 2, MEMORY_EDGE>>, <<0, 3, CONTROL_EDGE>>, <<1, 3, CONTROL_EDGE>>,
   <<2, 3, CONTROL_EDGE>>}

\* C11 as stated: the minimal register chain gives 4 nodes, a register edge
\* from the Store to slot 1 of the Load, the memory edge Store -> Load and
\* control edges from the Alloca, the Store and the Load to the Ret.
C11_StoreFeedsLoad ==
  IsRegisterChain =>
    /\ num_nodes(num_of_instructions) = 4
    /\ <<1, 2, RegisterEdge(1)>> \in EdgeSet
    /\ ChainMemoryAndControl \subseteq EdgeSet

\* C11 as amended: the minimal register chain gives 4 nodes and exactly the
\* register edges Alloca -> Store (slot 2) and Alloca -> Load (slot 1), the
\* memory edge Store -> Load and control edges from the Alloca, the Store and
\* the Load to the Ret.
C11_AllocaFeedsBoth ==
  IsRegisterChain =>
    /\ num_nodes(num_of_instructions) = 4
    /\ EdgeSet = {<<0, 1, RegisterEdge(2)>>, <<0, 2, RegisterEdge(1)>>}
                   \cup ChainMemoryAndControl

C11_Witness ==
  /\ IsRegisterChain
  /\ <<0, 2, RegisterEdge(1)>> \in EdgeSet
  /\ <<1, 2, MEMORY_EDGE>> \in EdgeSet

\* The first PHI of the run of consecutive PHI instructions that node n is in.
RECURSIVE RunStart(_)
RunStart(n) ==
  IF n > 0 /\ Node(n - 1).microop = LLVM_IR_PHI THEN RunStart(n - 1) ELSE n

\* The basic block that was current before the run of PHIs of node n.
BlockBefore(n) ==
  IF RunStart(n) = 0 THEN NoBlock
  ELSE <<Node(RunStart(n) - 1).basic_block, Node(RunStart(n) - 1).loop_depth>>

\* A Parameter line of slot param_tag of the current PHI is read.
PhiParameterRead(param_tag) ==
  /\ pc = "reading"
  /\ curr_microop = LLVM_IR_PHI
  /\ operand_lines' = operand_lines + 1
  /\ last_tag' = param_tag

RegisterEdgesInto(n) == {it \in BagToSet(register_edge_table) : it[2] = n}

\* Both operands of the current PHI have been read, both registers had a
\* writer, and the block before the run is one of the two predecessors.
PhiOfTwoKnown ==
  /\ pc = "reading"
  /\ nodes # <<>>
  /\ curr_microop = LLVM_IR_PHI
  /\ operand_lines = 2
  /\ ~result_seen
  /\ \A param_tag \in {1, 2} :
       DynamicVariable(curr_dynamic_function, PhiOperand(param_tag))
         \in DOMAIN register_last_written
  /\ \E param_tag \in {1, 2} : PhiIncoming(param_tag) = BlockBefore(current_node_id)

\* C12: a Parameter line of a PHI changes the builder's state only if its
\* prev_bbid is the block that was current before the first PHI of the run;
\* and a PHI of two predecessors whose registers both have writers gets
\* exactly one register edge, from the writer of the matching predecessor's
\* register.
C12_PhiTakesMatchingEdge ==
  /\ [][\A param_tag \in {1, 2} :
          PhiParameterRead(param_tag)
          /\ PhiIncoming(param_tag) # BlockBefore(current_node_id)
          => UNCHANGED builder_vars]_vars
  /\ [](PhiOfTwoKnown =>
          \E param_tag \in {1, 2} :
            /\ PhiIncoming(param_tag) = BlockBefore(current_node_id)
            /\ LET it == <<register_last_written[
                            DynamicVariable(curr_dynamic_function,
                                            PhiOperand(param_tag))],
                          current_node_id, param_tag>>
               IN  /\ RegisterEdgesInto(current_node_id) = {it}
                   /\ CopiesIn(it, register_edge_table) = 1)

\* The second PHI of a run, in another block than the one before the run.
C12_Witness ==
  /\ PhiOfTwoKnown
  /\ current_node_id = 2
  /\ RunStart(current_node_id) = 1
  /\ BlockBefore(current_node_id) # <<Node(1).basic_block, 0>>
  /\ RegisterEdgesInto(current_node_id) # {}

\* The Result line of the current DMALoad is read.
DmaLoadResultRead ==
  /\ pc = "reading"
  /\ curr_microop = LLVM_IR_DMALoad
  /\ ~result_seen
  /\ result_seen'

\* The destination [base + dst_off, base + dst_off + size) of the dmaLoad
\* whose operands are in the scratch: the base address is the second operand,
\* the size the last one and the destination offset the one before it.
DmaDestination ==
  LET v == parameter_value_per_inst
      n == Len(v)
  IN  Bytes(v[2] + v[n - 1], v[n])

\* C13: the Result line of a DMALoad of 4 or 5 operands makes the DMALoad the
\* last writer of every byte of its destination when the datapath is not in
\* ready mode, and leaves address_last_written alone when it is; after the
\* flush a Load whose byte was last written by a DMALoad has the memory edge
\* DMALoad -> Load, and in ready mode no memory edge starts at a DMALoad.
C13_DmaLoadWritesDestination ==
  /\ [][DmaLoadResultRead /\ Len(parameter_value_per_inst) \in {4, 5}
        => IF ready_mode
           THEN address_last_written' = address_last_written
           ELSE \A b \in DmaDestination :
                  /\ b \in DOMAIN address_last_written'
                  /\ address_last_written'[b] = current_node_id]_vars
  /\ [](pc = "done" =>
          /\ \A L \in NodeIds : \A b \in 0 .. 5 :
               /\ Node(L).microop = LLVM_IR_Load
               /\ Node(L).mem_access.valid
               /\ b \in Bytes(Node(L).mem_access.vaddr, Node(L).mem_access.size)
               /\ WritersBefore(L, b) # {}
               /\ Node(Max(WritersBefore(L, b))).microop = LLVM_IR_DMALoad
               => <<Max(WritersBefore(L, b)), L, MEMORY_EDGE>> \in EdgeSet
          /\ ready_mode =>
               \A e \in EdgeSet :
                 e[3] = MEMORY_EDGE => Node(e[1]).microop # LLVM_IR_DMALoad)

\* Not in ready mode: a dmaLoad of the second interface, then a Load inside
\* its destination, linked by a memory edge.
C13_Witness ==
  /\ pc = "done"
  /\ ~ready_mode
  /\ \E D \in NodeIds, L \in NodeIds :
       /\ Node(D).microop = LLVM_IR_DMALoad
       /\ Node(D).dma_mem_access.src_off # Node(D).dma_mem_access.dst_off
       /\ Node(D).dma_mem_access.size = 2
       /\ Node(L).microop = LLVM_IR_Load
       /\ DmaLoadWrites(D, Node(L).mem_access.vaddr)
       /\ <<D, L, MEMORY_EDGE>> \in EdgeSet

\* C14: when the slot-2 line of a Store is read and the last writer of the
\* Store's address is a DMALoad, the memory edge DMALoad -> Store is recorded
\* and the Store becomes the last writer of its address; the flush hands the
\* recorded edge to the program store.
C14_StoreAfterDmaLoad ==
  /\ [][\A value \in DmaAddrs :
          /\ DmaStoreAddress(value)
          /\ value \in DOMAIN address_last_written
          /\ Node(address_last_written[value]).microop = LLVM_IR_DMALoad
          => /\ current_node_id
                  \in SinksOf(memory_edge_table', address_last_written[value])
             /\ address_last_written'[value] = current_node_id]_vars
  /\ [](pc = "done" =>
          \A S \in NodeIds : \A D \in 0 .. S - 1 :
            /\ Node(S).microop = LLVM_IR_Store
            /\ Node(S).mem_access.valid
            /\ WritersBefore(S, Node(S).mem_access.vaddr) # {}
            /\ D = Max(WritersBefore(S, Node(S).mem_access.vaddr))
            /\ Node(D).microop = LLVM_IR_DMALoad
            => <<D, S, MEMORY_EDGE>> \in EdgeSet)

\* A two-byte Store into the middle of a two-byte dmaLoad, linked to it.
C14_Witness ==
  /\ pc = "done"
  /\ \E D \in NodeIds, S \in NodeIds :
       /\ Node(D).microop = LLVM_IR_DMALoad
       /\ Node(D).dma_mem_access.size = 2
       /\ Node(S).microop = LLVM_IR_Store
       /\ Node(S).mem_access.valid
       /\ Node(S).mem_access.size = 2
       /\ DmaLoadWrites(D, Node(S).mem_access.vaddr)
       /\ ~DmaLoadWrites(D, Node(S).mem_access.vaddr + 1)
       /\ <<D, S, MEMORY_EDGE>> \in EdgeSet
       /\ address_last_written[Node(S).mem_access.vaddr] = S

\* C19: the Result line of a DMA op that received a number of Parameter lines
\* other than 4 or 5 aborts the run; no dma_mem_access is attached to the
\* node, and address_last_written and the memory edge table stay as they are.
C19_UnknownDmaInterfaceIsFatal ==
  [][DmaLoadResultRead /\ Len(parameter_value_per_inst) \notin {4, 5}
     => /\ pc' = "aborted"
        /\ nodes' = nodes
        /\ address_last_written' = address_last_written
        /\ memory_edge_table' = memory_edge_table]_vars

\* The last Instruction line read is a Ret of the function of the first one.
FirstFunctionJustReturned ==
  /\ nodes # <<>>
  /\ Node(Len(nodes) - 1).microop = LLVM_IR_Ret
  /\ Node(Len(nodes) - 1).static_function = Node(0).static_function

\* C15 as stated: once the Instruction line of a Ret of the first function
\* is read, no later Instruction line becomes a node.
C15_StopsAtRet ==
  [][pc = "reading" /\ first_function_returned => nodes' = nodes]_vars

\* C15 as amended: the driver's returned flag is set exactly while the last
\* Instruction line read is a Ret of the first function, and a tagless line
\* read while it is set ends the reading with the flush, without another
\* node; lines with a tag are processed as before until then.
C15_StopsAtTaglessLine ==
  /\ [](pc = "reading" /\ nodes # <<>>
          => (first_function_returned <=> FirstFunctionJustReturned))
  /\ [][pc = "reading" /\ first_function_returned /\ TaglessLine
        => pc' = "done" /\ nodes' = nodes]_vars

\* The driver read on after a Ret of the first function and stopped after a
\* later one.
C15_Witness ==
  /\ pc = "done"
  /\ FirstFunctionJustReturned
  /\ \E n \in 0 .. Len(nodes) - 3 :
       /\ Node(n).microop = LLVM_IR_Ret
       /\ Node(n).static_function = Node(0).static_function
       /\ Node(n + 1).microop # LLVM_IR_Ret

\* The edges buffered in the three tables, as triples of the program store.
BufferedEdges ==
  {<<it[1], it[2], RegisterEdge(it[3])>> : it \in BagToSet(register_edge_table)}
    \cup {<<pair[1], pair[2], MEMORY_EDGE>> : pair \in PairsOf(memory_edge_table)}
    \cup {<<pair[1], pair[2], CONTROL_EDGE>> : pair \in PairsOf(control_edge_table)}

\* C16: build_initial_dddg returns END_OF_TRACE, with no node and no edge in
\* the program store, exactly when the reading ended before any tag-0 line;
\* otherwise it returns the trace offset and the program store holds the
\* buffered edges, each once.
C16_EndOfTraceSentinel ==
  pc = "done" =>
    IF tag0_lines = 0
    THEN returned = "END_OF_TRACE" /\ nodes = <<>> /\ edges = EmptyBag
    ELSE /\ returned = "offset"
         /\ nodes # <<>>
         /\ EdgeSet = BufferedEdges
         /\ \A e \in EdgeSet : CopiesIn(e, edges) = 1

\* A trace of one Store: the offset is returned and the read of the Store's
\* own address register is flushed.
C16_Witness ==
  /\ pc = "done"
  /\ tag0_lines = 1
  /\ returned = "offset"
  /\ EdgeSet # {}

----------------------------------------------------------------------------
(* The hex codec (lines 16-72). A C string is a sequence of one-character   *)
(* strings, a byte buffer a sequence of 0..255.                            *)

\* Lines 16-19.
kHexTable == <<"0", "1", "2", "3", "4", "5", "6", "7",
               "8", "9", "a", "b", "c", "d", "e", "f">>

\* The values of a uint8_t.
uint8_t == 0 .. (2^BYTE - 1)

\* Lines 21-28: the index of nib in kHexTable; the assert of line 26 tests a
\* string literal, which is never null, and 0 is returned.
nibbleVal(nib) ==
  IF \E i \in DOMAIN kHexTable : kHexTable[i] = nib
  THEN (CHOOSE i \in DOMAIN kHexTable : kHexTable[i] = nib) - 1
  ELSE 0

\* Line 36: strncmp(str, "0x", 2) == 0.
StartsWith0x(str) == Len(str) >= 2 /\ str[1] = "0" /\ str[2] = "x"

\* hexStrToBytes that decodes the "0x" as a byte.
hexStrToBytesKeepPrefix(str) ==
  [k \in 1 .. (Len(str) \div 2) |->
     (nibbleVal(str[2 * k - 1]) * 16 + nibbleVal(str[2 * k])) % 2^BYTE]

\* Lines 30-46 once the assert of line 32 has passed: the byte at
\* (i - start) / 2 is made of the characters at i and i + 1.
hexStrToBytes(str) ==
  LET len == Len(str)
      start == IF StartsWith0x(str) THEN 2 ELSE 0
  IN  [k \in 1 .. ((len - start) \div 2) |->
         LET i == start + 2 * (k - 1)
         IN  (nibbleVal(str[i + 1]) * 16 + nibbleVal(str[i + 2])) % 2^BYTE]

\* Line 61: sprintf "%02x" of a byte.
Hex02x(byte) == <<kHexTable[(byte \div 16) + 1], kHexTable[(byte % 16) + 1]>>

\* Lines 60-67: the loop of bytesToHexStr from index i on.
RECURSIVE bytesToHexStrFrom(_, _, _, _, _)
bytesToHexStrFrom(data, size, i, sep_count, sep_threshold) ==
  IF i >= size THEN <<>>
  ELSE LET separate == sep_count + 1 = sep_threshold /\ i # size - 1
       IN  Hex02x(data[i + 1])
             \o (IF separate THEN <<"_">> ELSE <<>>)
             \o bytesToHexStrFrom(data, size, i + 1,
                                  IF separate THEN 0 ELSE sep_count + 1,
                                  sep_threshold)

\* Lines 48-72.
bytesToHexStr(data, size, separate32) ==
  LET sep_threshold == IF separate32 THEN 4 ELSE size + 1
  IN  <<"0", "x">> \o bytesToHexStrFrom(data, size, 0, 0, sep_threshold)

----------------------------------------------------------------------------
(* SpecHex: the codec applied to byte buffers and strings.                 *)

MaxBytes == 5
MaxChars == 4
MaxCodecCalls == 2

ByteSamples == {0, 171, 255}
Chars == {"0", "1", "a", "f", "x", "A", "_"}

ByteBuffers ==
  {<<byte>> : byte \in uint8_t}
    \cup UNION {[1 .. n -> ByteSamples] : n \in 0 .. MaxBytes}

Strings == UNION {[1 .. n -> Chars] : n \in 0 .. MaxChars}

InitHex ==
  /\ Init
  /\ ~ready_mode
  /\ codec_calls = <<>>
  /\ \/ /\ byte_buf \in ByteBuffers
        /\ str_buf = <<>>
        /\ codec_input = [kind |-> "bytes", value |-> byte_buf]
     \/ /\ str_buf \in Strings
        /\ byte_buf = <<>>
        /\ codec_input = [kind |-> "str", value |-> str_buf]

\* What the last codec call returned, or the input before any call.
Holds(kind) ==
  IF codec_calls = <<>> THEN codec_input.kind = kind
  ELSE codec_calls[Len(codec_calls)].fn
         = (IF kind = "str" THEN "bytesToHexStr" ELSE "hexStrToBytes")

\* A call of bytesToHexStr on the whole buffer held.
Encode ==
  \E separate32 \in BOOLEAN :
    /\ pc = "reading"
    /\ Len(codec_calls) < MaxCodecCalls
    /\ Holds("bytes")
    /\ str_buf' = bytesToHexStr(byte_buf, Len(byte_buf), separate32)
    /\ codec_calls' = Append(codec_calls, [fn |-> "bytesToHexStr",
                                           separate32 |-> separate32])
    /\ UNCHANGED <<driver_vars, producer_vars, program_vars, builder_vars,
                   byte_buf, codec_input>>

\* A call of hexStrToBytes on the string held; the assert of line 32 ends
\* the run on a string of odd length.
Decode ==
  /\ pc = "reading"
  /\ Len(codec_calls) < MaxCodecCalls
  /\ Holds("str")
  /\ IF Len(str_buf) % 2 = 0
     THEN /\ byte_buf' = hexStrToBytes(str_buf)
          /\ codec_calls' = Append(codec_calls, [fn |-> "hexStrToBytes",
                                                 separate32 |-> FALSE])
          /\ UNCHANGED pc
     ELSE /\ pc' = "aborted"
          /\ UNCHANGED <<byte_buf, codec_calls>>
  /\ UNCHANGED <<seen_first_line, first_function, first_function_returned,
                 returned, producer_vars, program_vars, builder_vars,
                 str_buf, codec_input>>

NextHex ==
  \/ Encode
  \/ Decode

SpecHex == InitHex /\ [][NextHex]_vars

----------------------------------------------------------------------------
(* The codec's properties.                                                 *)

HexDigits == {kHexTable[i] : i \in DOMAIN kHexTable}

\* The characters of str after its "0x", if it has one.
Digits(str) == IF StartsWith0x(str) THEN SubSeq(str, 3, Len(str)) ELSE str

\* An even-length string of lowercase hex digits, with or without the "0x".
IsLowercaseHex(str) ==
  /\ Len(str) % 2 = 0
  /\ \A i \in DOMAIN Digits(str) : Digits(str)[i] \in HexDigits

\* str made to carry the "0x".
Normalized(str) == <<"0", "x">> \o Digits(str)

EncodeCall == [fn |-> "bytesToHexStr", separate32 |-> FALSE]
DecodeCall == [fn |-> "hexStrToBytes", separate32 |-> FALSE]

\* C17: decoding the unseparated encoding of a byte buffer gives the buffer
\* back, and encoding, unseparated, the decoding of an even-length lowercase
\* hex string gives the string with its "0x".
C17_HexRoundTrip ==
  /\ (codec_input.kind = "bytes" /\ codec_calls = <<EncodeCall, DecodeCall>>)
       => byte_buf = codec_input.value
  /\ (/\ codec_input.kind = "str"
      /\ IsLowercaseHex(codec_input.value)
      /\ codec_calls = <<DecodeCall, EncodeCall>>)
       => str_buf = Normalized(codec_input.value)

\* "af0f", without the "0x", was decoded and encoded again.
C17_Witness ==
  /\ codec_input.kind = "str"
  /\ codec_input.value = <<"a", "f", "0", "f">>
  /\ codec_calls = <<DecodeCall, EncodeCall>>
  /\ byte_buf = <<175, 15>>
  /\ str_buf = <<"0", "x", "a", "f", "0", "f">>

\* C18: hexStrToBytes returns no buffer for a string that has a character
\* outside 0-9 and a-f.
C18_InvalidNibbleIsFatal ==
  ~ /\ codec_input.kind = "str"
    /\ \E i \in DOMAIN Digits(codec_input.value) :
         Digits(codec_input.value)[i] \notin HexDigits
    /\ codec_calls # <<>>
    /\ codec_calls[1] = DecodeCall

----------------------------------------------------------------------------
(* The dynamic call stack.                                                 *)

\* No Ret of the first function has been read.
FirstFunctionRunning ==
  \A i \in DOMAIN nodes :
    nodes[i].microop = LLVM_IR_Ret => nodes[i].static_function # first_function

\* C20: while the first function runs, after an Instruction record other
\* than a Ret (whose function is about to leave), active_method is not empty
\* and has one entry for each invocation the traced program has entered and
\* not returned from.
C20_DepthIsCallDepth ==
  (/\ pc = "reading"
   /\ tag0_lines > 0
   /\ FirstFunctionRunning
   /\ curr_microop # LLVM_IR_Ret)
    => active_method # <<>> /\ Len(active_method) = Len(frames)

----------------------------------------------------------------------------
(* SpecLoop: instructions of one function at loop depths around the limit. *)

MaxLoopNodes == 3
LoopDepths == {0, 1, LoopDepthLimit - 1, LoopDepthLimit, LoopDepthLimit + 1}

LoopInstructionAt(loop_depth) ==
  \E microop \in {LLVM_IR_Add, LLVM_IR_PHI} :
    /\ Len(nodes) < MaxLoopNodes
    /\ InstructionLine("f", "bb", loop_depth, microop, Len(nodes))

LoopInstruction == \E loop_depth \in LoopDepths : LoopInstructionAt(loop_depth)

NextLoop ==
  \/ LoopInstruction
  \/ TaglessLine
  \/ EndOfTrace

SpecLoop == InitIdle /\ [][NextLoop]_vars

----------------------------------------------------------------------------
(* The last writer of a byte.                                              *)

\* The nodes that defined byte b: Stores and DMALoads whose range holds it.
Definers(b) == {w \in NodeIds : StoreWrites(w, b) \/ DmaLoadWrites(w, b)}

\* The bytes some node defined.
DefinedBytes ==
  UNION {Bytes(Node(n).mem_access.vaddr, Node(n).mem_access.size) :
           n \in {w \in NodeIds : Node(w).microop = LLVM_IR_Store}}
    \cup UNION {Bytes(Node(n).dma_mem_access.base_addr
                        + Node(n).dma_mem_access.dst_off,
                      Node(n).dma_mem_access.size) :
                  n \in {w \in NodeIds : Node(w).microop = LLVM_IR_DMALoad}}

\* Every Store has read both of its operands or none.
StoresComplete ==
  \A n \in NodeIds :
    Node(n).microop = LLVM_IR_Store
      => (Node(n).array_label # "" <=> Node(n).mem_access.valid)

\* C22: once the operands of every Store are read, address_last_written
\* holds a byte exactly when some Store or non-ready-mode DMALoad defined it,
\* and then names the latest of them.
C22_LastWriterPerByte ==
  StoresComplete =>
    \A b \in DefinedBytes \cup DOMAIN address_last_written :
      /\ b \in DOMAIN address_last_written <=> Definers(b) # {}
      /\ Definers(b) # {} => address_last_written[b] = Max(Definers(b))

----------------------------------------------------------------------------
(* The memory edges into a Store.                                          *)

\* The nodes before n recorded as writers of byte b: the DMALoads, not in
\* ready mode, whose destination holds b and the Stores whose address is b.
RecordedBefore(n, b) ==
  {w \in 0 .. n - 1 :
     \/ DmaLoadWrites(w, b)
     \/ /\ Node(w).microop = LLVM_IR_Store
        /\ Node(w).mem_access.valid
        /\ Node(w).mem_access.vaddr = b}

\* The sources of the memory edges into node n.
MemorySources(n) == {e[1] : e \in {d \in EdgeSet : d[2] = n /\ d[3] = MEMORY_EDGE}}

\* The bytes of a pointer, the address operand of a Store.
PointerBytes == Bytes(0, PointerSize \div BYTE)

\* C28 as claimed: after the flush every memory edge into a Store comes from
\* a DMALoad.
C28_StoreEdgesFromDmaLoads ==
  pc = "done" =>
    \A e \in EdgeSet :
      e[3] = MEMORY_EDGE /\ Node(e[2]).microop = LLVM_IR_Store
      => Node(e[1]).microop = LLVM_IR_DMALoad

\* C28 as amended: after the flush a Store has memory edges only if the
\* writer recorded last for its address is a DMALoad, and then has one from
\* the writer recorded last for each byte of the pointer-sized range at its
\* address, whether a DMALoad or a Store.
C28_StoreBurstFromLastWriters ==
  pc = "done" /\ StoresComplete =>
    \A S \in NodeIds :
      Node(S).microop = LLVM_IR_Store /\ Node(S).mem_access.valid
      => LET a == Node(S).mem_access.vaddr
             last == RecordedBefore(S, a)
         IN  MemorySources(S) =
               IF last # {} /\ Node(Max(last)).microop = LLVM_IR_DMALoad
               THEN {Max(RecordedBefore(S, a + i)) :
                       i \in {j \in PointerBytes : RecordedBefore(S, a + j) # {}}}
               ELSE {}

\* A dmaLoad of byte 1, a Store at 2 and a Store at 1 that has memory edges
\* from both.
C28_Witness ==
  /\ pc = "done"
  /\ StoresComplete
  /\ Len(nodes) = 3
  /\ Node(0).microop = LLVM_IR_DMALoad
  /\ Node(1).microop = LLVM_IR_Store
  /\ Node(2).microop = LLVM_IR_Store
  /\ Node(2).mem_access.valid
  /\ MemorySources(2) = {0, 1}

----------------------------------------------------------------------------
(* Dynamic functions of the nodes.                                         *)

\* C25: the dynamic_invocation of every node is the invocation index of the
\* curr_dynamic_function its Instruction line was processed with.
C25_NodeCarriesInvocation ==
  \A n \in NodeIds :
    Node(n).dynamic_invocation = executing[n + 1].dyn_func.iteration

----------------------------------------------------------------------------
(* SpecFrame: f and g call each other, themselves and h, a function that   *)
(* is not traced, with a register or an immediate as the argument; an Add  *)
(* reads x or the formal p and writes x.  A Forward line follows the       *)
(* argument of a call of a traced function, whose first instruction comes  *)
(* next; the trace ends with the Ret of the first invocation.              *)

MaxFrameNodes == 4
Untraced == "h"

FrameInstruction ==
  \E function \in Functions, microop \in {LLVM_IR_Call, LLVM_IR_Ret, LLVM_IR_Add} :
    /\ Len(nodes) < MaxFrameNodes
    /\ IF tag0_lines = 0 THEN function = "f"
       ELSE IF curr_microop = LLVM_IR_Call /\ call_target \in Functions
       THEN function = call_target /\ last_tag = 1 /\ forwarded
       ELSE /\ curr_microop = LLVM_IR_Call => call_target = Untraced /\ last_tag = 1
            /\ FramesBelow # <<>>
            /\ function = FramesBelow[Len(FramesBelow)].function
    /\ InstructionLine(function, "bb", 0, microop, Len(nodes))

FrameCallee ==
  \E label \in Functions \cup {Untraced} :
    /\ curr_microop = LLVM_IR_Call
    /\ last_tag = 0
    /\ ParameterLine(2, PointerSize, 0, FALSE, label, NoBlock)

FrameArgument ==
  \E is_reg \in BOOLEAN :
    /\ curr_microop = LLVM_IR_Call
    /\ last_tag = 2
    /\ ParameterLine(1, 4 * BYTE, 0, is_reg, IF is_reg THEN "x" ELSE "5", NoBlock)

FrameForward ==
  /\ curr_microop = LLVM_IR_Call
  /\ last_tag = 1
  /\ call_target \in Functions
  /\ ForwardLine(TRUE, "p")

FrameRead(label) ==
  /\ curr_microop = LLVM_IR_Add
  /\ last_tag = 0
  /\ ParameterLine(1, 4 * BYTE, 0, TRUE, label, NoBlock)

FrameOperand == \E label \in {"x", "p"} : FrameRead(label)

FrameResult ==
  /\ curr_microop = LLVM_IR_Add
  /\ ResultLine(4 * BYTE, 0, TRUE, "x")

NextFrame ==
  \/ FrameInstruction
  \/ FrameCallee
  \/ FrameArgument
  \/ FrameForward
  \/ FrameOperand
  \/ FrameResult
  \/ TaglessLine
  \/ EndOfTrace

SpecFrame == InitMem /\ [][NextFrame]_vars

----------------------------------------------------------------------------
(* Calls and their arguments.                                              *)

\* C27: a Forward line adds a call_arg_map entry exactly when the Parameter
\* line before it carried a register, and the entry maps the formal, in the
\* callee's dynamic function, to that register in the caller's.
C27_ForwardMapsOwnArgument ==
  [][FrameForward
     => call_arg_map' =
          IF pending_actual # nullptr
          THEN Put(call_arg_map,
                   DynamicVariable(callee_dynamic_function, "p"),
                   DynamicVariable(curr_dynamic_function, pending_actual))
          ELSE call_arg_map]_vars

\* The previous instruction was the Ret of a callee: the line to come is the
\* first of the caller after the return.
ReturningToCaller == tag0_lines > 0 /\ curr_microop = LLVM_IR_Ret /\ FramesBelow # <<>>

\* The Call node of the invocation at the top of FramesBelow: its last node.
CallNodeOfCaller ==
  Max({m \in NodeIds :
         executing[m + 1].entry = FramesBelow[Len(FramesBelow)].entry})

\* C24: the first Instruction line of a caller after the return of its
\* callee is processed with the curr_dynamic_function of the Call; the
\* caller's invocation counter stays, and the registers written under that
\* dynamic function are those a read resolves.
C24_ReturnRestoresCaller ==
  [][FrameInstruction /\ ReturningToCaller /\ nodes' # nodes
     => LET caller == FramesBelow[Len(FramesBelow)].function
            at_call == executing[CallNodeOfCaller + 1].dyn_func
        IN  /\ curr_dynamic_function' = at_call
            /\ invocations'[caller] = invocations[caller]
            /\ \A dv \in DOMAIN register_last_written :
                 dv.dyn_func = at_call
                 => /\ DynamicVariable(curr_dynamic_function', dv.variable)
                         \in DOMAIN register_last_written'
                    /\ register_last_written'[
                         DynamicVariable(curr_dynamic_function', dv.variable)]
                         = register_last_written[dv]]_vars

\* The dynamic function a call of call_target is about to enter.
CalleeToEnter == DynamicFunction(call_target, invocations[call_target] + 1)

\* The node a Forward line hands to the formal: the last writer of the
\* register of the Parameter line before it, else the Call.
ForwardedProducer ==
  IF /\ pending_actual # nullptr
     /\ DynamicVariable(curr_dynamic_function, pending_actual)
          \in DOMAIN register_last_written
  THEN register_last_written[
         DynamicVariable(curr_dynamic_function, pending_actual)]
  ELSE current_node_id

\* The dynamic function the running invocation was entered with.
EnteredAs == executing[frames[Len(frames)].entry + 1].dyn_func

\* C26: a Forward line for p gives register_last_written, under the dynamic
\* function the callee is about to enter, the last writer of the argument
\* register or else the Call; the callee's first instruction is processed
\* with that dynamic function; and a read of p in the callee's invocation
\* adds the register edge from that node.
C26_ForwardFeedsCallee ==
  [][/\ FrameForward
          => register_last_written'[DynamicVariable(CalleeToEnter, "p")]
               = ForwardedProducer
     /\ FrameInstruction /\ Entering(call_target) /\ call_target \in Functions
          => curr_dynamic_function' = CalleeToEnter
     /\ FrameRead("p") /\ Len(frames) > 1
          => /\ DynamicVariable(EnteredAs, "p") \in DOMAIN register_last_written
             /\ BagIn(<<register_last_written[DynamicVariable(EnteredAs, "p")],
                        current_node_id, 1>>,
                      register_edge_table')]_vars

----------------------------------------------------------------------------
(* SpecNest: f calls itself and the leaf function g, passing its register  *)
(* x as the formal p; an Add reads p and x and writes x.  The first        *)
(* instruction of the callee follows the Forward line of its Call, and the *)
(* instruction after a Ret is the caller's.                                *)

MaxNestNodes == 8
Leaf == "g"

NestInstruction ==
  \E function \in Functions, microop \in {LLVM_IR_Call, LLVM_IR_Ret, LLVM_IR_Add} :
    /\ Len(nodes) < MaxNestNodes
    /\ function = Leaf => microop # LLVM_IR_Call
    /\ IF tag0_lines = 0 THEN function = "f"
       ELSE IF curr_microop = LLVM_IR_Call
       THEN function = call_target /\ forwarded
       ELSE /\ curr_microop = LLVM_IR_Add => result_seen
            /\ FramesBelow # <<>>
            /\ function = FramesBelow[Len(FramesBelow)].function
    /\ InstructionLine(function, "bb", 0, microop, Len(nodes))

NestCallee ==
  \E label \in Functions :
    /\ curr_microop = LLVM_IR_Call
    /\ last_tag = 0
    /\ ParameterLine(2, PointerSize, 0, FALSE, label, NoBlock)

NestArgument ==
  /\ curr_microop = LLVM_IR_Call
  /\ last_tag = 2
  /\ ParameterLine(1, 4 * BYTE, 0, TRUE, "x", NoBlock)

NestForward ==
  /\ curr_microop = LLVM_IR_Call
  /\ last_tag = 1
  /\ ForwardLine(TRUE, "p")

NestFormal ==
  /\ curr_microop = LLVM_IR_Add
  /\ last_tag = 0
  /\ ParameterLine(2, 4 * BYTE, 0, TRUE, "p", NoBlock)

NestLocal ==
  /\ curr_microop = LLVM_IR_Add
  /\ last_tag = 2
  /\ ParameterLine(1, 4 * BYTE, 0, TRUE, "x", NoBlock)

NestResult ==
  /\ curr_microop = LLVM_IR_Add
  /\ last_tag = 1
  /\ ResultLine(4 * BYTE, 0, TRUE, "x")

NestEnd ==
  /\ tag0_lines > 0
  /\ curr_microop = LLVM_IR_Ret
  /\ FramesBelow = <<>>
  /\ EndOfTrace

NextNest ==
  \/ NestInstruction
  \/ NestCallee
  \/ NestArgument
  \/ NestForward
  \/ NestFormal
  \/ NestLocal
  \/ NestResult
  \/ NestEnd

SpecNest == InitMem /\ [][NextNest]_vars

\* The two nodes were executed by the same invocation of a function.
SameInvocation(m, n) == executing[m + 1].entry = executing[n + 1].entry

\* The operand of the edge is the formal p of an Add.
ReadsFormal(sink, slot) == Node(sink).microop = LLVM_IR_Add /\ slot = 2

\* C21: a register edge joins two nodes of one invocation of a function,
\* unless its sink read the formal installed by a Forward line; a read of x
\* is never resolved to the x written by another invocation.
C21_RegisterEdgesWithinInvocation ==
  \A e \in BagToSet(register_edge_table) :
    SameInvocation(e[1], e[2]) \/ ReadsFormal(e[2], e[3])

====
